---- MODULE Spec2Model ----
(***************************************************************************)
(* A state-machine model of smolvm: the host process primitives, the       *)
(* `stop` command, the packed run's child guard, the guest agent's         *)
(* connection handler and the host agent client.                           *)
(***************************************************************************)
EXTENDS Integers, Sequences, FiniteSets, TLC

\* ------------------------------------------------------------------ bounds
\* Size of the pid space of the modelled host.
MaxPid == 2
\* Number of processes that may be spawned in one behaviour (start-time tokens).
MaxClock == 3

\* Number of frames sent to the agent on one connection.
MaxFrames == 2
\* restarts of one sandbox by the supervisor
MaxRestarts == 1

\* Names of runtime directories that tempdir_in can hand out.
MaxDirs == 3

\* Calls made on one AgentClient.
MaxOps == 2

\* Largest restart count and retry limit tried, below the large one.
MaxCount == 9

\* Length up to which every string over the tried characters is validated.
MaxRefLen == 5

\* Requests that a client sends on one connection to the agent's listener.
MaxReqs == 1

\* Failures of listener.accept() in one behaviour.
MaxFaults == 1

\* Sandbox names that can be registered with the API server.
MaxNames == 2

\* Length up to which every string over the tried characters is used as a
\* workload id.
MaxIdLen == 3

\* Seconds that one iteration of wait_for_agent's poll loop is taken to last
\* (the code sleeps 100 ms).
PollSecs == 10

\* ------------------------------------------------------------- constants
\* supervisor.rs: MAX_BACKOFF_SECS.
MAX_BACKOFF_SECS == 300

\* run_packed.rs: AGENT_READY_TIMEOUT, in seconds.
AGENT_READY_TIMEOUT == 30

\* client.rs: the read and write timeouts set by connect, and the read timeout
\* during a Run, in seconds.
ReadTimeoutSecs == 30
WriteTimeoutSecs == 10
RunReadTimeoutSecs == 3600

\* run_packed.rs: `for _ in 0..5` retries of process_start_time.
CaptureRetries == 5

VARIABLES
    procs,    \* host process table: pid -> entry
    clock,    \* next start-time token the kernel hands out
    rec,      \* the VmRecord of the named VM (state, pid)
    stopc,    \* the `stop` command invocation
    sp,       \* stop_process invocations, one per caller
    sigLog,   \* ghost: the signals sent by the running stop / packed invocations
    pk,       \* the packed run (RunPackedCmd::run) and its ChildGuard
    inq,      \* frames sent to the agent on the connection, not yet read
    peer,     \* the sending peer: frames sent, whether it closed its side
    ag,       \* the agent's handle_connection: position, buffer, counters
    agOut,    \* ghost: the requests the agent answered, with the responses
    cin,      \* frames on their way to the host client, not yet read
    cl,       \* the host AgentClient: the operation in progress and its result
    sup,      \* the API server's supervisor and the restart configuration
    cfg,      \* the record store: database rows and a SmolvmConfig handle
    chp,      \* a ChildProcess handle and the child it was created for
    rt,       \* the runtime directories of two concurrent packed invocations
    conn,     \* the host's wait for the agent and the deadlines of its AgentClient
    dk,       \* a disk image file, its format marker and the last storage call on it
    dec,      \* the supervisor's last restart decision or backoff computation, with its inputs
    vref,     \* the image reference last given to validate_image_reference and the verdict
    srv,      \* the agent's accept loop and the connections of several clients
    ls,       \* the guest's layer store: cached manifests, layer directories, overlays
    reg,      \* the API server's sandbox registry, its lock, the entry locks and three request threads
    startc,   \* ghost: how the last failed start of the named VM left its record
    ovl,      \* the workload id last given to an overlay handler, the reply and the paths built for it
    shut      \* the API server's shutdown signal and the supervisor's run loop

procVars == <<procs, clock, rec, stopc, sp, sigLog, pk>>

agentVars == <<inq, peer, ag, agOut, cin, cl>>

\* The variables of the subsystems below the record store.
moreVars == <<rt, conn, dk, dec, vref, srv, ls, reg, startc, ovl, shut>>

hostVars == <<sup, cfg, chp, moreVars>>

\* Everything but one of the later variables.
baseVars == <<procVars, agentVars, sup, cfg, chp>>

notRt == <<baseVars, conn, dk, dec, vref, srv, ls, reg, startc, ovl, shut>>

notConn == <<baseVars, rt, dk, dec, vref, srv, ls, reg, startc, ovl, shut>>

notDk == <<baseVars, rt, conn, dec, vref, srv, ls, reg, startc, ovl, shut>>

notDec == <<baseVars, rt, conn, dk, vref, srv, ls, reg, startc, ovl, shut>>

notVref == <<baseVars, rt, conn, dk, dec, srv, ls, reg, startc, ovl, shut>>

notSrv == <<baseVars, rt, conn, dk, dec, vref, ls, reg, startc, ovl, shut>>

notLs == <<baseVars, rt, conn, dk, dec, vref, srv, reg, startc, ovl, shut>>

notReg == <<baseVars, rt, conn, dk, dec, vref, srv, ls, startc, ovl, shut>>

notStartc == <<baseVars, rt, conn, dk, dec, vref, srv, ls, reg, ovl, shut>>

notOvl == <<baseVars, rt, conn, dk, dec, vref, srv, ls, reg, startc, shut>>

notShut == <<baseVars, rt, conn, dk, dec, vref, srv, ls, reg, startc, ovl>>

vars == <<procs, clock, rec, stopc, sp, sigLog, pk, inq, peer, ag, agOut, cin, cl,
          sup, cfg, chp, rt,
          conn,
          dk,
          dec,
          vref,
          srv,
          ls,
          reg,
          startc,
          ovl,
          shut>>

Pids == 1..MaxPid
Callers == {"stop", "pk", "chp"}

\* A free slot of the process table.
FreeProc == [kind |-> "free", start |-> 0, zombie |-> FALSE, info |-> FALSE]

\* A freshly spawned process: kind "vm" (hypervisor of the named VM, forked by
\* an earlier CLI invocation), "child" (the packed run's own forked child) or
\* "other" (an unrelated process of the host).
NewProc(kind, start, info) ==
    [kind |-> kind, start |-> start, zombie |-> FALSE, info |-> info]

\* ------------------------------------------------------ process primitives

\* process::is_alive: kill(pid, 0) == 0; true for a zombie as well.
is_alive(pid) == pid \in Pids /\ procs[pid].kind # "free"

\* process::process_start_time: None (0) when there is no process or the
\* kernel has not populated the process info yet.
process_start_time(pid) ==
    IF pid \in Pids /\ procs[pid].kind # "free" /\ procs[pid].info
    THEN procs[pid].start ELSE 0

\* process::is_our_process_strict: alive and same start time as recorded.
is_our_process_strict(pid, st) ==
    st # 0 /\ is_alive(pid) /\ process_start_time(pid) = st

\* process::try_wait as seen by caller c: waitpid(pid, WNOHANG).
\*   "running": None; "reaped": Some(code); "echild": Some(-1), not our child.
try_wait(c, pid) ==
    IF c \in {"pk", "chp"} /\ pid \in Pids /\ procs[pid].kind = "child"
    THEN (IF procs[pid].zombie THEN "reaped" ELSE "running")
    ELSE "echild"

\* VmRecord::actual_state.
actual_state(r) ==
    IF r.state = "Running"
    THEN (IF r.pid # 0 /\ is_alive(r.pid) THEN "Running" ELSE "Stopped")
    ELSE r.state

IdleSp == [pc |-> "idle", pid |-> 0, force |-> FALSE, verified |-> FALSE,
           want |-> 0, polled |-> FALSE, res |-> "none"]

\* A call of stop_process(pid, timeout, force) by a caller; `verified` and
\* `want` are ghosts: whether the caller verified (pid, start_time) before the
\* call, and the start time of the process instance the caller means.
CallStop(pid, force, verified, want) ==
    [pc |-> "check", pid |-> pid, force |-> force, verified |-> verified,
     want |-> want, polled |-> FALSE, res |-> "none"]

Signal(c, sig) ==
    [by |-> c, sig |-> sig, verified |-> sp[c].verified,
     hit |-> procs[sp[c].pid].start = sp[c].want]

SpReturn(c, res) == [sp EXCEPT ![c].pc = "ret", ![c].res = res]

\* stop_process, lines 91-98: already dead.
SpCheck(c) ==
    /\ sp[c].pc = "check"
    /\ sp' = IF is_alive(sp[c].pid) THEN [sp EXCEPT ![c].pc = "term"]
             ELSE SpReturn(c, "ok")
    /\ UNCHANGED <<procs, clock, rec, stopc, sigLog, pk, agentVars, hostVars>>

\* stop_process, lines 100-104: send SIGTERM.
SpTerminate(c) ==
    /\ sp[c].pc = "term"
    /\ IF is_alive(sp[c].pid)
       THEN /\ sigLog' = sigLog \cup {Signal(c, "TERM")}
            /\ sp' = [sp EXCEPT ![c].pc = "poll"]
       ELSE /\ sp' = SpReturn(c, "ok")
            /\ UNCHANGED sigLog
    /\ UNCHANGED <<procs, clock, rec, stopc, pk, agentVars, hostVars>>

\* stop_process, lines 110-120: one iteration of the poll loop.
SpPoll(c) ==
    /\ sp[c].pc = "poll"
    /\ LET w == try_wait(c, sp[c].pid) IN
       CASE w = "reaped" ->
              /\ procs' = [procs EXCEPT ![sp[c].pid] = FreeProc]
              /\ sp' = SpReturn(c, "ok")
         [] w = "echild" ->
              /\ sp' = SpReturn(c, "ok")
              /\ UNCHANGED procs
         [] OTHER ->
              /\ ~sp[c].polled
              /\ sp' = [sp EXCEPT ![c].polled = TRUE]
              /\ UNCHANGED procs
    /\ UNCHANGED <<clock, rec, stopc, sigLog, pk, agentVars, hostVars>>

\* A timeout that sends SIGKILL whether or not force was asked for.
SpTimeout_AlwaysKill(c) ==
    /\ sp[c].pc = "poll"
    /\ sp[c].polled
    /\ try_wait(c, sp[c].pid) = "running"
    /\ sigLog' = sigLog \cup {Signal(c, "KILL")}
    /\ procs' = [procs EXCEPT ![sp[c].pid] = FreeProc]
    /\ sp' = SpReturn(c, "ok")
    /\ UNCHANGED <<clock, rec, stopc, pk, agentVars, hostVars>>

\* stop_process, lines 122-137: the timeout elapsed with the process running.
SpTimeout(c) ==
    /\ sp[c].pc = "poll"
    /\ sp[c].polled
    /\ try_wait(c, sp[c].pid) = "running"
    /\ IF sp[c].force
       THEN /\ sigLog' = sigLog \cup {Signal(c, "KILL")}
            /\ procs' = [procs EXCEPT ![sp[c].pid] = FreeProc]
            /\ sp' = SpReturn(c, "ok")
       ELSE /\ sp' = SpReturn(c, "err")
            /\ UNCHANGED <<sigLog, procs>>
    /\ UNCHANGED <<clock, rec, stopc, pk, agentVars, hostVars>>

\* ------------------------------------------------- process.rs ChildProcess

\* No handle yet.
IdleChp == [pc |-> "none", pid |-> 0, exit_code |-> "none", force |-> FALSE,
            result |-> "none"]

\* ChildProcess::new, lines 151-156, for a child this process has forked.
ChildProcessNew(pid) ==
    /\ chp.pc = "none"
    /\ procs[pid].kind = "free"
    /\ clock <= MaxClock
    /\ procs' = [procs EXCEPT ![pid] = NewProc("child", clock, TRUE)]
    /\ clock' = clock + 1
    /\ chp' = [IdleChp EXCEPT !.pc = "held", !.pid = pid]
    /\ UNCHANGED <<rec, stopc, sp, sigLog, pk, agentVars, sup, cfg, moreVars>>

\* ChildProcess::stop, lines 209-214: a cached exit code is returned at once;
\* otherwise stop_process is called.
ChildProcessStop(force) ==
    /\ chp.pc = "held"
    /\ IF chp.exit_code # "none"
       THEN /\ chp' = [chp EXCEPT !.pc = "returned", !.force = force, !.result = "ok"]
            /\ UNCHANGED sp
       ELSE /\ chp' = [chp EXCEPT !.pc = "stopping", !.force = force]
            /\ sp' = [sp EXCEPT !["chp"] = CallStop(chp.pid, force, TRUE, procs[chp.pid].start)]
    /\ UNCHANGED <<procs, clock, rec, stopc, sigLog, pk, agentVars, sup, cfg, moreVars>>

\* ChildProcess::stop, lines 214-216: stop_process returned; its exit code is
\* cached, its error propagated.
ChildProcessStopped ==
    /\ chp.pc = "stopping"
    /\ sp["chp"].pc = "ret"
    /\ chp' = IF sp["chp"].res = "ok"
              THEN [chp EXCEPT !.pc = "returned", !.result = "ok", !.exit_code = "code"]
              ELSE [chp EXCEPT !.pc = "returned", !.result = "err"]
    /\ UNCHANGED <<procs, clock, rec, stopc, sp, sigLog, pk, agentVars, sup, cfg, moreVars>>

\* The caller goes on with the handle, for another stop.
ChildProcessAgain ==
    /\ chp.pc = "returned"
    /\ chp' = [chp EXCEPT !.pc = "held", !.result = "none", !.force = FALSE]
    /\ sp' = [sp EXCEPT !["chp"] = IdleSp]
    /\ sigLog' = {s \in sigLog : s.by # "chp"}
    /\ UNCHANGED <<procs, clock, rec, stopc, pk, agentVars, sup, cfg, moreVars>>

\* ------------------------------------------------------------ environment

\* A running process exits on its own. The packed run's child stays a zombie
\* (its pid is held) until its parent reaps it; the named VM's hypervisor was
\* forked by an earlier CLI invocation, so its pid becomes free at once.
ProcExit(pid) ==
    /\ procs[pid].kind # "free"
    /\ ~procs[pid].zombie
    /\ procs' = IF procs[pid].kind = "child"
                THEN [procs EXCEPT ![pid].zombie = TRUE]
                ELSE [procs EXCEPT ![pid] = FreeProc]
    /\ UNCHANGED <<clock, rec, stopc, sp, sigLog, pk, agentVars, hostVars>>

\* An unrelated process is spawned and the kernel hands it a free pid.
OtherSpawn(pid) ==
    /\ procs[pid].kind = "free"
    /\ clock <= MaxClock
    /\ procs' = [procs EXCEPT ![pid] = NewProc("other", clock, TRUE)]
    /\ clock' = clock + 1
    /\ UNCHANGED <<rec, stopc, sp, sigLog, pk, agentVars, hostVars>>

\* The kernel finishes setting up the process info of a forked child.
ProcInfoReady(pid) ==
    /\ procs[pid].kind = "child"
    /\ ~procs[pid].info
    /\ procs' = [procs EXCEPT ![pid].info = TRUE]
    /\ UNCHANGED <<clock, rec, stopc, sp, sigLog, pk, agentVars, hostVars>>

\* ------------------------------------------------------- start of a named VM

\* microvm StartCmd::run up to the record update: the hypervisor is forked and
\* the record is set to Running with its pid. `gstart` is a ghost: the start
\* time of the hypervisor (VmRecord has no such field).
StartCmdRun(pid) ==
    /\ actual_state(rec) # "Running"
    /\ procs[pid].kind = "free"
    /\ clock <= MaxClock
    /\ procs' = [procs EXCEPT ![pid] = NewProc("vm", clock, TRUE)]
    /\ clock' = clock + 1
    /\ rec' = [state |-> "Running", pid |-> pid, gstart |-> clock]
    /\ UNCHANGED <<stopc, sp, sigLog, pk, agentVars, hostVars>>

\* ------------------------------------------------------- cli/stop.rs StopCmd

\* A cleanup that marks the record Stopped and leaves the pid in it.
cleanup_state_KeepsPid(r) == [r EXCEPT !.state = "Stopped"]

\* VmRecord update of StopCmd::cleanup_state.
cleanup_state(r) == [r EXCEPT !.state = "Stopped", !.pid = 0]

\* StopCmd::run, lines 27-45: read the record, require actual_state Running.
StopRun(force) ==
    /\ stopc.pc = "idle"
    /\ stopc' = IF actual_state(rec) # "Running"
                THEN [pc |-> "done", force |-> force, pid |-> 0, result |-> "invalid_state"]
                ELSE [pc |-> "alive_check", force |-> force, pid |-> rec.pid, result |-> "none"]
    /\ UNCHANGED <<procs, clock, rec, sp, sigLog, pk, agentVars, hostVars>>

\* StopCmd::run, lines 47-56: already dead, or call stop_process on the pid.
StopAliveCheck ==
    /\ stopc.pc = "alive_check"
    /\ IF ~is_alive(stopc.pid)
       THEN /\ rec' = cleanup_state(rec)
            /\ stopc' = [stopc EXCEPT !.pc = "done", !.result = "ok"]
            /\ UNCHANGED sp
       ELSE /\ sp' = [sp EXCEPT !["stop"] =
                        CallStop(stopc.pid, stopc.force, FALSE, rec.gstart)]
            /\ stopc' = [stopc EXCEPT !.pc = "stopping"]
            /\ UNCHANGED rec
    /\ UNCHANGED <<procs, clock, sigLog, pk, agentVars, hostVars>>

\* StopCmd::run, lines 56-72: the result of stop_process.
StopReturn ==
    /\ stopc.pc = "stopping"
    /\ sp["stop"].pc = "ret"
    /\ IF sp["stop"].res = "ok"
       THEN /\ rec' = cleanup_state(rec)
            /\ stopc' = [stopc EXCEPT !.pc = "done", !.result = "ok"]
       ELSE /\ stopc' = [stopc EXCEPT !.pc = "done", !.result = "err"]
            /\ UNCHANGED rec
    /\ sp' = [sp EXCEPT !["stop"] = IdleSp]
    /\ UNCHANGED <<procs, clock, sigLog, pk, agentVars, hostVars>>

\* The CLI process of a finished `stop` exits; a later invocation starts anew.
StopExit ==
    /\ stopc.pc = "done"
    /\ stopc' = [pc |-> "idle", force |-> FALSE, pid |-> 0, result |-> "none"]
    /\ sigLog' = {s \in sigLog : s.by # "stop"}
    /\ UNCHANGED <<procs, clock, rec, sp, pk, agentVars, hostVars>>

\* --------------------------------------- start.rs StartCmd: end of the run

\* The record update of StartCmd::run after the command has run, lines 120-125.
start_finished(r) == [r EXCEPT !.state = "Stopped", !.pid = 0]

\* StartCmd::run, lines 120-130: the command ran to its end; the record is set
\* to Stopped with no pid, then manager.stop() stops the hypervisor (stopped:
\* it succeeds; otherwise the failure is only logged).
StartCmdFinish(stopped) ==
    /\ rec.state = "Running"
    /\ rec' = start_finished(rec)
    /\ procs' = IF stopped /\ is_our_process_strict(rec.pid, rec.gstart)
                THEN [procs EXCEPT ![rec.pid] = FreeProc] ELSE procs
    /\ UNCHANGED <<clock, stopc, sp, sigLog, pk, agentVars, hostVars>>

IdleStartc == [pc |-> "idle", state |-> "none", pid |-> 0]

\* StartCmd::run, lines 77-106 (microvm.rs 526-558): after the record was set
\* to Running, AgentClient::connect, client.pull or client.run_with_mounts
\* returns Err and `?` returns it from run. The record is not touched on this
\* path. The AgentManager goes out of scope; `torn`: the hypervisor it started
\* is stopped with it. startc keeps the record as run left it.
StartCmdFail(torn) ==
    /\ rec.state = "Running"
    /\ procs' = IF torn /\ is_our_process_strict(rec.pid, rec.gstart)
                THEN [procs EXCEPT ![rec.pid] = FreeProc] ELSE procs
    /\ startc' = [pc |-> "failed", state |-> rec.state, pid |-> rec.pid]
    /\ UNCHANGED <<rec, clock, stopc, sp, sigLog, pk, agentVars, sup, cfg, chp>>
    /\ UNCHANGED <<rt, conn, dk, dec, vref, srv, ls, reg, ovl, shut>>

\* ------------------------------------------------- api/supervisor.rs Supervisor

Policies == {"Never", "Always", "OnFailure", "UnlessStopped"}

\* Exit codes try_wait hands to the supervisor: clean, or not (a failure
\* code, or -1 when the pid cannot be waited for); "none" stands for no exit
\* code known.
ExitCodes == {"0", "1"}

\* The restart configurations sandboxes are registered with: policy and
\* max_retries (0: no limit).
RestartConfigs ==
    {<<"Never", 0>>, <<"Always", 0>>, <<"Always", 1>>, <<"OnFailure", 1>>,
     <<"UnlessStopped", 0>>}

\* No sandbox registered with the API server.
IdleSup == [pc |-> "idle", policy |-> "none", max_retries |-> 0,
            restart_count |-> 0, user_stopped |-> FALSE, last_exit |-> "none"]

\* A decision that restarts under OnFailure only when a failure is known.
should_restart_KnownFailureOnly(config, last_exit_code) ==
    IF config.max_retries > 0 /\ config.restart_count >= config.max_retries
    THEN FALSE
    ELSE CASE config.policy = "Never" -> FALSE
           [] config.policy = "Always" -> TRUE
           [] config.policy = "OnFailure" -> last_exit_code = "1"
           [] config.policy = "UnlessStopped" -> ~config.user_stopped

\* Supervisor::should_restart.
should_restart(config, last_exit_code) ==
    IF config.max_retries > 0 /\ config.restart_count >= config.max_retries
    THEN FALSE
    ELSE CASE config.policy = "Never" -> FALSE
           [] config.policy = "Always" -> TRUE
           [] config.policy = "OnFailure" -> last_exit_code # "0"
           [] config.policy = "UnlessStopped" -> ~config.user_stopped

\* ApiState::is_sandbox_alive: the record has a pid and the process at it is
\* the one that was started.
is_sandbox_alive(r) == r.pid # 0 /\ is_our_process_strict(r.pid, r.gstart)

\* ApiState::update_sandbox_state(name, state, pid).
update_sandbox_state(r, state, pid) == [r EXCEPT !.state = state, !.pid = pid]

\* The sandbox is registered with the API server under a restart policy.
RegisterSandbox(policy, max_retries) ==
    /\ sup.policy = "none"
    /\ sup' = [IdleSup EXCEPT !.policy = policy, !.max_retries = max_retries]
    /\ UNCHANGED <<procVars, agentVars, cfg, chp, moreVars>>

\* check_sandbox, line 106: the state written when a dead sandbox is not
\* restarted.
NoRestartState == "Stopped"

\* Supervisor::check_sandbox, lines 74-127: the sandbox is not alive; record the
\* exit code, consult the restart policy, and either mark the record or go on
\* to the backoff before the restart.
SupCheck(code) ==
    /\ sup.pc = "idle"
    /\ sup.policy # "none"
    /\ sup.restart_count < MaxRestarts
    /\ ~is_sandbox_alive(rec)
    /\ LET last == IF rec.pid # 0 THEN code ELSE sup.last_exit IN
       IF ~should_restart(sup, last)
       THEN /\ rec' = update_sandbox_state(rec, NoRestartState, 0)
            /\ sup' = [sup EXCEPT !.last_exit = last]
       ELSE /\ sup' = [sup EXCEPT !.last_exit = last, !.pc = "backoff"]
            /\ UNCHANGED rec
    /\ UNCHANGED <<procs, clock, stopc, sp, sigLog, pk, agentVars, cfg, chp, moreVars>>

\* A restart that marks the record Running without a pid.
restarted_NoPid(r, pid, start) == [r EXCEPT !.state = "Running", !.pid = 0, !.gstart = start]

\* restart_sandbox, lines 155-165: the record after a successful restart.
restarted(r, pid, start) ==
    [update_sandbox_state(r, "Running", pid) EXCEPT !.gstart = start]

\* check_sandbox, lines 125-133, and restart_sandbox, lines 137-176: after the
\* backoff the restart count is incremented and the sandbox started again;
\* the record becomes Running with the new pid, or Failed.
SupRestart(ok, pid) ==
    /\ sup.pc = "backoff"
    /\ sup' = [sup EXCEPT !.pc = "idle", !.restart_count = sup.restart_count + 1]
    /\ IF ok
       THEN /\ procs[pid].kind = "free"
            /\ clock <= MaxClock
            /\ procs' = [procs EXCEPT ![pid] = NewProc("vm", clock, TRUE)]
            /\ clock' = clock + 1
            /\ rec' = restarted(rec, pid, clock)
       ELSE /\ rec' = update_sandbox_state(rec, "Failed", 0)
            /\ UNCHANGED <<procs, clock>>
    /\ UNCHANGED <<stopc, sp, sigLog, pk, agentVars, cfg, chp, moreVars>>

\* shut.signalled: the value of the shutdown watch channel; shut.pc: the loop
\* of Supervisor::run is at its select ("select") or has been left ("stopped").
IdleShut == [signalled |-> FALSE, pc |-> "select"]

\* The server signals shutdown: shutdown_tx.send(true).
ShutdownSignal ==
    /\ ~shut.signalled
    /\ shut' = [shut EXCEPT !.signalled = TRUE]
    /\ UNCHANGED notShut

\* Supervisor::run, lines 45-48: the ticker branch of the select runs
\* check_all_sandboxes. The select is taken to choose the shutdown branch
\* whenever the signal is there.
SupTick(code) ==
    /\ shut.pc = "select"
    /\ ~shut.signalled
    /\ SupCheck(code)

\* Supervisor::run, lines 49-54: the shutdown branch of the select; it is
\* polled only while no check is running, check_all_sandboxes being awaited
\* inside the ticker branch.
SupShutdown ==
    /\ shut.pc = "select"
    /\ shut.signalled
    /\ sup.pc = "idle"
    /\ shut' = [shut EXCEPT !.pc = "stopped"]
    /\ UNCHANGED notShut

\* ------------------------------- api/supervisor.rs restart decision, backoff

\* Option<i32> exit codes: None, Some(0), Some(1).
LastExitCodes == {"none"} \cup ExitCodes

\* restart_count and max_retries values, and a count near the top of the range.
Counts == 0..MaxCount
BigCount == 2147483647

IdleDec == [fn |-> "none", policy |-> "none", max_retries |-> 0, restart_count |-> 0,
            user_stopped |-> FALSE, code |-> "none", restart |-> FALSE, backoff |-> 0]

Min(a, b) == IF a < b THEN a ELSE b

\* A backoff whose exponent is capped one step later.
calculate_backoff_LateCap(restart_count) ==
    Min(2 ^ Min(restart_count, 9), MAX_BACKOFF_SECS)

\* Supervisor::calculate_backoff, lines 198-202; 2u64.pow of an exponent of at
\* most 8 stays far below 2^64.
calculate_backoff(restart_count) ==
    Min(2 ^ Min(restart_count, 8), MAX_BACKOFF_SECS)

\* check_sandbox, lines 101-115: the decision for a dead sandbox from its
\* restart configuration and last exit code.
ShouldRestartCall(policy, max_retries, restart_count, user_stopped, code) ==
    /\ dec.fn = "none"
    /\ LET config == [IdleDec EXCEPT !.fn = "should_restart", !.policy = policy,
                                     !.max_retries = max_retries,
                                     !.restart_count = restart_count,
                                     !.user_stopped = user_stopped, !.code = code]
       IN dec' = [config EXCEPT !.restart = should_restart(config, code)]
    /\ UNCHANGED notDec

\* check_sandbox, lines 114-115: the backoff for the restart count.
CalculateBackoffCall(restart_count) ==
    /\ dec.fn = "none"
    /\ dec' = [IdleDec EXCEPT !.fn = "calculate_backoff", !.restart_count = restart_count,
                              !.backoff = calculate_backoff(restart_count)]
    /\ UNCHANGED notDec

\* check_sandbox returns; the next check starts afresh.
CheckDone ==
    /\ dec.fn # "none"
    /\ dec' = IdleDec
    /\ UNCHANGED notDec


\* ------------------------------------------------- config.rs SmolvmConfig

\* A VmRecord of the one name of the model, told apart by its state; "absent"
\* stands for no record under the name.
Records == {"Created", "Running", "Stopped"}

\* The store: the database row, the `vms` cache of the open SmolvmConfig
\* handle, and ghosts: the last operation, its result, whether the database
\* write of it succeeded, and the row and the cache entry before it.
IdleCfg == [db |-> "absent", vms |-> "absent", last |-> "none", result |-> "none",
            dbok |-> TRUE, pdb |-> "absent", pvms |-> "absent"]

\* SmolvmDb::insert_vm as SmolvmConfig uses it: update_vm (config.rs:179)
\* persists the changed record of an existing name with it, so it writes the
\* row whether or not the name has one.
db_insert_vm(row, record) == record

Op(name, result, dbok) ==
    [cfg EXCEPT !.last = name, !.result = result, !.dbok = dbok,
                !.pdb = cfg.db, !.pvms = cfg.vms]

\* SmolvmConfig::load, lines 85-121: a later invocation opens the database and
\* loads all rows into its cache.
ConfigLoad ==
    /\ cfg' = [Op("load", "ok", TRUE) EXCEPT !.vms = cfg.db]
    /\ UNCHANGED <<procVars, agentVars, sup, chp, moreVars>>

\* SmolvmConfig::insert_vm, lines 146-150: the database write, whose error is
\* returned, then the cache insert.
insert_vm(record, dbok) ==
    IF ~dbok
    THEN Op("insert", "err", dbok)
    ELSE [Op("insert", "ok", dbok) EXCEPT !.db = db_insert_vm(cfg.db, record),
                                          !.vms = record]

\* SmolvmConfig::remove_vm, lines 153-159: a database error is only logged.
remove_vm(dbok) ==
    [Op("remove", IF cfg.vms = "absent" THEN "none" ELSE "some", dbok)
        EXCEPT !.db = IF dbok THEN "absent" ELSE cfg.db, !.vms = "absent"]

\* SmolvmConfig::update_vm, lines 172-186: the closure changes the cached
\* record, which is then written to the database; an error is only logged.
update_vm(new, dbok) ==
    IF cfg.vms = "absent"
    THEN Op("update", "none", dbok)
    ELSE [Op("update", "some", dbok)
             EXCEPT !.vms = new,
                    !.db = IF dbok THEN db_insert_vm(cfg.db, new) ELSE cfg.db]

InsertVm(record, dbok) ==
    /\ cfg' = insert_vm(record, dbok)
    /\ UNCHANGED <<procVars, agentVars, sup, chp, moreVars>>

RemoveVm(dbok) ==
    /\ cfg' = remove_vm(dbok)
    /\ UNCHANGED <<procVars, agentVars, sup, chp, moreVars>>

UpdateVm(new, dbok) ==
    /\ cfg' = update_vm(new, dbok)
    /\ UNCHANGED <<procVars, agentVars, sup, chp, moreVars>>

\* CreateCmd::run, create.rs lines 55-95 (and microvm.rs line 433): refuse an
\* existing name; otherwise put the new record into the cache and call save,
\* which writes the global settings only.
CreateCmdRun ==
    /\ cfg' = IF cfg.vms # "absent"
              THEN Op("create", "err", TRUE)
              ELSE [Op("create", "ok", TRUE) EXCEPT !.vms = "Created"]
    /\ UNCHANGED <<procVars, agentVars, sup, chp, moreVars>>

\* ------------------------------------------- cli/run_packed.rs RunPackedCmd

IdlePk == [pc |-> "init", pid |-> 0, st |-> 0, cstart |-> 0, tries |-> 0,
           dir |-> "none", result |-> "none"]

\* ghost: the child forked by this packed run is still running.
ChildRunning ==
    /\ pk.pid # 0
    /\ procs[pk.pid].kind = "child"
    /\ procs[pk.pid].start = pk.cstart
    /\ ~procs[pk.pid].zombie

\* run, lines 202-291: the runtime directory is created and the child forked.
PkFork(pid) ==
    /\ pk.pc = "init"
    /\ procs[pid].kind = "free"
    /\ clock <= MaxClock
    /\ procs' = [procs EXCEPT ![pid] = NewProc("child", clock, FALSE)]
    /\ clock' = clock + 1
    /\ pk' = [IdlePk EXCEPT !.pc = "capture", !.pid = pid, !.cstart = clock,
                            !.dir = "present"]
    /\ UNCHANGED <<rec, stopc, sp, sigLog, agentVars, hostVars>>

\* run, line 291: fork fails; the TempDir is dropped on the error return.
PkForkFail ==
    /\ pk.pc = "init"
    /\ pk' = [IdlePk EXCEPT !.pc = "done", !.dir = "removed", !.result = "err_fork"]
    /\ UNCHANGED <<procs, clock, rec, stopc, sp, sigLog, agentVars, hostVars>>

\* run, lines 298-299: first read of the child's start time.
PkCapture ==
    /\ pk.pc = "capture"
    /\ LET st == process_start_time(pk.pid) IN
       pk' = [pk EXCEPT !.st = st,
                        !.pc = IF st = 0 /\ is_alive(pk.pid) THEN "retry" ELSE "check"]
    /\ UNCHANGED <<procs, clock, rec, stopc, sp, sigLog, agentVars, hostVars>>

\* run, lines 300-306: one brief retry of the read.
PkRetry ==
    /\ pk.pc = "retry"
    /\ LET st == process_start_time(pk.pid) IN
       pk' = [pk EXCEPT !.st = st, !.tries = pk.tries + 1,
                        !.pc = IF st # 0 \/ pk.tries + 1 >= CaptureRetries
                               THEN "check" ELSE "retry"]
    /\ UNCHANGED <<procs, clock, rec, stopc, sp, sigLog, agentVars, hostVars>>

\* A start that goes on to the handshake whether or not the start time is known.
PkCheck_NoIdentityCheck ==
    /\ pk.pc = "check"
    /\ pk' = [pk EXCEPT !.pc = "wait_agent"]
    /\ UNCHANGED <<procs, clock, rec, stopc, sp, sigLog, agentVars, hostVars>>

\* run, lines 312-339: without a start time a live child is stopped at once
\* (stop_process_fast, force = true); otherwise the ChildGuard is created.
PkCheck ==
    /\ pk.pc = "check"
    /\ IF pk.st = 0 /\ is_alive(pk.pid)
       THEN /\ sp' = [sp EXCEPT !["pk"] = CallStop(pk.pid, TRUE, FALSE, pk.cstart)]
            /\ pk' = [pk EXCEPT !.pc = "fail_stop"]
       ELSE /\ pk' = [pk EXCEPT !.pc = "wait_agent"]
            /\ UNCHANGED sp
    /\ UNCHANGED <<procs, clock, rec, stopc, sigLog, agentVars, hostVars>>

\* run, lines 314-320: after the stop, remove the runtime dir and fail.
PkFailCleanup ==
    /\ pk.pc = "fail_stop"
    /\ sp["pk"].pc = "ret"
    /\ sp' = [sp EXCEPT !["pk"] = IdleSp]
    /\ pk' = [pk EXCEPT !.pc = "done", !.dir = "removed", !.result = "err_identity"]
    /\ UNCHANGED <<procs, clock, rec, stopc, sigLog, agentVars, hostVars>>

\* run, line 342: wait_for_agent returns a client or an error (`?`).
PkWaitAgent(ok) ==
    /\ pk.pc = "wait_agent"
    /\ pk' = IF ok THEN [pk EXCEPT !.pc = "exec"]
             ELSE [pk EXCEPT !.pc = "drop", !.result = "err_agent"]
    /\ UNCHANGED <<procs, clock, rec, stopc, sp, sigLog, agentVars, hostVars>>

\* run, lines 344-347: execute_command returns an exit code or an error.
PkExec(ok) ==
    /\ pk.pc = "exec"
    /\ pk' = [pk EXCEPT !.pc = "drop", !.result = IF ok THEN "ok" ELSE "err_exec"]
    /\ UNCHANGED <<procs, clock, rec, stopc, sp, sigLog, agentVars, hostVars>>

\* A guard that removes the runtime directory without stopping the child.
ChildGuardDrop_NoStop ==
    /\ pk.pc = "drop"
    /\ pk' = [pk EXCEPT !.pc = "rmdir"]
    /\ UNCHANGED <<procs, clock, rec, stopc, sp, sigLog, agentVars, hostVars>>

\* ChildGuard::drop, lines 361-368: signal the child only if it is still ours.
ChildGuardDrop ==
    /\ pk.pc = "drop"
    /\ IF is_our_process_strict(pk.pid, pk.st)
       THEN /\ sp' = [sp EXCEPT !["pk"] = CallStop(pk.pid, TRUE, TRUE, pk.cstart)]
            /\ pk' = [pk EXCEPT !.pc = "drop_stop"]
       ELSE /\ pk' = [pk EXCEPT !.pc = "rmdir"]
            /\ UNCHANGED sp
    /\ UNCHANGED <<procs, clock, rec, stopc, sigLog, agentVars, hostVars>>

\* ChildGuard::drop, line 367: stop_process_fast returned; its result is dropped.
ChildGuardStopped ==
    /\ pk.pc = "drop_stop"
    /\ sp["pk"].pc = "ret"
    /\ sp' = [sp EXCEPT !["pk"] = IdleSp]
    /\ pk' = [pk EXCEPT !.pc = "rmdir"]
    /\ UNCHANGED <<procs, clock, rec, stopc, sigLog, agentVars, hostVars>>

\* ChildGuard::drop, line 371: remove the runtime directory; then the process
\* returns or exits, and a child left as a zombie is reaped by init.
ChildGuardRemoveDir ==
    /\ pk.pc = "rmdir"
    /\ pk' = [pk EXCEPT !.pc = "done", !.dir = "removed"]
    /\ procs' = IF procs[pk.pid].kind = "child" /\ procs[pk.pid].zombie
                THEN [procs EXCEPT ![pk.pid] = FreeProc] ELSE procs
    /\ UNCHANGED <<clock, rec, stopc, sp, sigLog, agentVars, hostVars>>

\* A later packed invocation.
PkExit ==
    /\ pk.pc = "done"
    /\ pk' = IdlePk
    /\ sigLog' = {s \in sigLog : s.by # "pk"}
    /\ UNCHANGED <<procs, clock, rec, stopc, sp, agentVars, hostVars>>


\* ---------------------------- cli/run_packed.rs per-invocation runtime dir

\* Two packed invocations of the same checksum, hence of the same cache
\* directory, may run at once.
Invocations == {1, 2}

\* Names that tempdir_in can give to a directory under <cache_dir>/runtime.
DirNames == 1..MaxDirs

\* rt.dirs: the directories under <cache_dir>/runtime; rt.used: the names handed
\* out so far; rt.inv: each invocation's position and its runtime_dir (0: none).
IdleRt == [dirs |-> {}, used |-> {},
           inv |-> [i \in Invocations |-> [pc |-> "init", dir |-> 0]]]

\* run, lines 217-218.
storage_path(dir) == <<dir, "storage.ext4">>
vsock_path(dir) == <<dir, "agent.sock">>

\* A runtime directory named after the checksum alone.
tempdir_in_PerChecksum(r) == {1}

\* run, line 214: tempfile::tempdir_in creates a directory under a random name
\* that it has verified not to exist; the random name is taken to be fresh.
tempdir_in(r) == DirNames \ r.used

\* An invocation holds a runtime directory from its creation to its cleanup.
Holds(i) == rt.inv[i].pc \in {"running", "removed"}

\* run, lines 211-225: create the runtime directory and the storage disk in it.
RtCreate(i, d) ==
    /\ rt.inv[i].pc = "init"
    /\ d \in tempdir_in(rt)
    /\ rt' = [rt EXCEPT !.dirs = @ \cup {d}, !.used = @ \cup {d},
                        !.inv[i] = [pc |-> "running", dir |-> d]]
    /\ UNCHANGED notRt

\* run, line 316, and ChildGuard::drop, line 371: remove_dir_all on the path of
\* the invocation's own runtime_dir.
RtRemoveDir(i) ==
    /\ rt.inv[i].pc = "running"
    /\ rt' = [rt EXCEPT !.dirs = @ \ {rt.inv[i].dir}, !.inv[i].pc = "removed"]
    /\ UNCHANGED notRt

\* The TempDir is dropped: after the explicit removal (lines 317, 372), or on an
\* error return before the guard exists (lines 225-291); it removes its path.
RtTempDirDrop(i) ==
    /\ Holds(i)
    /\ rt' = [rt EXCEPT !.dirs = @ \ {rt.inv[i].dir}, !.inv[i].pc = "done"]
    /\ UNCHANGED notRt

\* The invocation's process ends; a later invocation takes its place.
RtExit(i) ==
    /\ rt.inv[i].pc = "done"
    /\ rt' = [rt EXCEPT !.inv[i] = [pc |-> "init", dir |-> 0]]
    /\ UNCHANGED notRt


\* ------------------- cli/run_packed.rs wait_for_agent, agent/client.rs connect

\* The control socket path: absent; a socket file nobody listens on; a listener
\* (the hypervisor's vsock bridge) without an agent behind it yet; an agent
\* that answers.
SockStates == {"absent", "stale", "bound", "ready"}

\* conn.elapsed: seconds since wait_for_agent started; conn.pings: Ping
\* handshakes done by the wait; conn.rto, conn.wto: the stream's read and write
\* timeouts in seconds (0: no client); conn.op: the call in progress.
IdleConn == [pc |-> "wait", elapsed |-> 0, sock |-> "absent", pings |-> 0,
             rto |-> 0, wto |-> 0, op |-> "none", last |-> "none", nops |-> 0]

\* The hypervisor creates the socket file, listens, and the guest agent boots.
SockAdvance(to) ==
    /\ conn.pc = "wait"
    /\ \/ conn.sock = "absent" /\ to \in {"stale", "bound"}
       \/ conn.sock = "stale" /\ to = "bound"
       \/ conn.sock = "bound" /\ to = "ready"
    /\ conn' = [conn EXCEPT !.sock = to]
    /\ UNCHANGED notConn

\* AgentClient::connect, client.rs lines 26-40: UnixStream::connect, then the
\* two timeouts; nothing is sent.
connect(c) ==
    IF c.sock \in {"bound", "ready"}
    THEN [c EXCEPT !.pc = "ready", !.rto = ReadTimeoutSecs, !.wto = WriteTimeoutSecs]
    ELSE c

\* wait_for_agent, lines 435-463: one iteration of the loop.
WaitForAgentPoll ==
    /\ conn.pc = "wait"
    /\ conn' = IF conn.elapsed > AGENT_READY_TIMEOUT
               THEN [conn EXCEPT !.pc = "failed"]
               ELSE IF conn.sock # "absent" /\ connect(conn).pc = "ready"
                    THEN connect(conn)
                    ELSE [conn EXCEPT !.elapsed = @ + PollSecs]
    /\ UNCHANGED notConn

ClientOps == {"Ping", "Pull", "Run"}

\* ping, pull (lines 75-104) and run_with_mounts, lines 267-276: the call is
\* made; Run first lifts the read timeout.
ClientCall(op) ==
    /\ conn.pc = "ready"
    /\ conn.nops < MaxOps
    /\ conn' = [conn EXCEPT !.pc = "inflight", !.op = op, !.nops = @ + 1,
                            !.rto = IF op = "Run" THEN RunReadTimeoutSecs ELSE @]
    /\ UNCHANGED notConn

\* run_with_mounts, lines 270-284: `request(..)?` returns the error at once;
\* only after a response is the read timeout set back.
run_returned(c, ok) == IF ok THEN [c EXCEPT !.rto = ReadTimeoutSecs] ELSE c

\* The call returns, with a response or with an error of request.
ClientReturn(ok) ==
    /\ conn.pc = "inflight"
    /\ LET c == [conn EXCEPT !.pc = "ready", !.last = IF ok THEN "ok" ELSE "err"]
       IN conn' = IF conn.op = "Run" THEN run_returned(c, ok) ELSE c
    /\ UNCHANGED notConn


\* ------------------------------------------------ storage.rs disk formatting

\* The disk image file: absent; a sparse file without a filesystem; an ext
\* filesystem; a file whose ext superblock is damaged.
DiskStates == {"absent", "sparse", "ext", "corrupt"}

\* dk.disk, dk.marker: the files on the host. Ghosts of the last call: its
\* name, its result, whether the `file` probe could be run, whether remove_file
\* succeeded, what ensure_formatted had at hand to format with, and the two
\* files before the call.
IdleDk == [disk |-> "absent", marker |-> FALSE, last |-> "none", ret |-> "none",
           probe |-> TRUE, rmok |-> TRUE, with |-> "none",
           pdisk |-> "absent", pmarker |-> FALSE]

\* disk_appears_valid_ext4, lines 194-217: the output of `file -b` names ext2,
\* ext3 or ext4; when the probe cannot be run the disk is assumed valid.
disk_appears_valid_ext4(disk, probe) == IF probe THEN disk = "ext" ELSE TRUE

\* A check that leaves the marker of a missing or unrecognised disk in place.
disk_needs_format_KeepsMarker(d, probe, rmok) ==
    IF ~d.marker THEN [ret |-> TRUE, disk |-> d.disk, marker |-> d.marker]
    ELSE IF d.disk = "absent" THEN [ret |-> TRUE, disk |-> d.disk, marker |-> TRUE]
    ELSE IF ~disk_appears_valid_ext4(d.disk, probe)
         THEN [ret |-> TRUE, disk |-> IF rmok THEN "absent" ELSE d.disk, marker |-> TRUE]
    ELSE [ret |-> FALSE, disk |-> d.disk, marker |-> d.marker]

\* disk_needs_format, lines 220-250: the result and the files it leaves; an
\* error of remove_file is only logged.
disk_needs_format(d, probe, rmok) ==
    IF ~d.marker THEN [ret |-> TRUE, disk |-> d.disk, marker |-> d.marker]
    ELSE IF d.disk = "absent"
         THEN [ret |-> TRUE, disk |-> d.disk, marker |-> ~rmok]
    ELSE IF ~disk_appears_valid_ext4(d.disk, probe)
         THEN [ret |-> TRUE, disk |-> IF rmok THEN "absent" ELSE d.disk,
               marker |-> ~rmok]
    ELSE [ret |-> FALSE, disk |-> d.disk, marker |-> d.marker]

\* copy_disk_from_template, lines 111-151: copy, resize, mark.
copy_disk_from_template(f) == [ret |-> "ok", disk |-> "ext", marker |-> TRUE]

\* format_disk_with_mkfs, lines 154-191: `mkfs.ext4 -F -q -m 0 -L label path`
\* with no size argument; it fails when the tool is not installed and when the
\* file does not exist, and the marker is written on success only.
format_disk_with_mkfs(f, mkfs) ==
    IF mkfs /\ f.disk # "absent"
    THEN [ret |-> "ok", disk |-> "ext", marker |-> TRUE]
    ELSE [ret |-> "err", disk |-> f.disk, marker |-> f.marker]

\* StorageDisk::ensure_formatted, lines 405-415.
ensure_formatted(d, probe, rmok, template, mkfs) ==
    LET n == disk_needs_format(d, probe, rmok) IN
    IF ~n.ret THEN [ret |-> "ok", disk |-> n.disk, marker |-> n.marker]
    ELSE IF template THEN copy_disk_from_template(n)
    ELSE format_disk_with_mkfs(n, mkfs)

DkCall(name, out, probe, rmok) ==
    [disk |-> out.disk, marker |-> out.marker, last |-> name, ret |-> out.ret,
     probe |-> probe, rmok |-> rmok, with |-> "none",
     pdisk |-> dk.disk, pmarker |-> dk.marker]

\* StorageDisk::open_or_create_at, lines 366-394: an existing file is opened as
\* it is, a missing one is created sparse.
OpenOrCreateAt ==
    /\ dk' = DkCall("open", [ret |-> "ok", marker |-> dk.marker,
                             disk |-> IF dk.disk = "absent" THEN "sparse" ELSE dk.disk],
                    TRUE, TRUE)
    /\ UNCHANGED notDk

\* StorageDisk::needs_format, lines 439-441.
NeedsFormat(probe, rmok) ==
    /\ LET n == disk_needs_format(dk, probe, rmok) IN
       dk' = DkCall("needs_format",
                    [n EXCEPT !.ret = IF n.ret THEN "true" ELSE "false"], probe, rmok)
    /\ UNCHANGED notDk

\* StorageDisk::ensure_formatted with what find_disk_template and
\* find_e2fsprogs_tool find on this host.
EnsureFormatted(probe, rmok, template, mkfs) ==
    /\ dk' = [DkCall("ensure_formatted",
                     ensure_formatted(dk, probe, rmok, template, mkfs), probe, rmok)
                 EXCEPT !.with = IF template THEN "template"
                                 ELSE IF mkfs THEN "mkfs" ELSE "nothing"]
    /\ UNCHANGED notDk

\* StorageDisk::mark_formatted, lines 444-446.
MarkFormatted ==
    /\ dk.disk # "absent"
    /\ dk' = DkCall("mark_formatted", [ret |-> "ok", disk |-> dk.disk, marker |-> TRUE],
                    TRUE, TRUE)
    /\ UNCHANGED notDk

\* delete_disk_and_marker, lines 254-264.
DeleteDisk ==
    /\ dk' = DkCall("delete", [ret |-> "ok", disk |-> "absent", marker |-> FALSE],
                    TRUE, TRUE)
    /\ UNCHANGED notDk

\* Outside the program: the superblock of a formatted disk is damaged, or the
\* disk file is removed while its marker stays.
DiskDamaged(to) ==
    /\ dk.disk = "ext"
    /\ to \in {"corrupt", "absent"}
    /\ dk' = DkCall("damage", [ret |-> "none", disk |-> to, marker |-> dk.marker],
                    TRUE, TRUE)
    /\ UNCHANGED notDk


\* ===================================================== guest agent / client

\* The 64 MiB ceiling on a frame's declared length (spec 4.B); the agent and
\* the client of this repository define no such constant.
MaxFrameSize == 64 * 1024 * 1024

\* handle_connection: `vec![0u8; 64 * 1024]`.
InitialBufLen == 64 * 1024

\* Declared lengths of the frames a peer sends: a small one, the ceiling, and
\* one above the ceiling.
FrameLens == {15, MaxFrameSize, MaxFrameSize + 1}

\* Image references, as sequences of characters.
RefAlpine == <<"a", ":", "3">>
RefInjection == <<"a", ";", " ", "r", "m">>
ImageRefs == {RefAlpine, RefInjection}

AlnumChars == {"a", "b", "m", "r", "3", "A"}
ForbiddenChars == {"$", "BACKTICK", "|", ";", "&", ">", "<", "\n", "\r", "NUL"}
ValidChars == AlnumChars \cup {".", "-", "_", "/", ":", "@"}

\* oci.rs: MAX_IMAGE_REF_LENGTH.
MAX_IMAGE_REF_LENGTH == 512

Contains(str, c) == \E i \in 1..Len(str) : str[i] = c
ContainsDotDot(str) == \E i \in 1..(Len(str) - 1) : str[i] = "." /\ str[i + 1] = "."

\* A validation without the path traversal test.
validate_image_reference_NoTraversalTest(image) ==
    /\ Len(image) # 0
    /\ Len(image) <= MAX_IMAGE_REF_LENGTH
    /\ \A c \in ForbiddenChars : ~Contains(image, c)
    /\ \A i \in 1..Len(image) : image[i] \in ValidChars
    /\ image[1] \in AlnumChars
    /\ image[Len(image)] \in AlnumChars

\* oci.rs validate_image_reference: TRUE for Ok(()).
validate_image_reference(image) ==
    /\ Len(image) # 0
    /\ Len(image) <= MAX_IMAGE_REF_LENGTH
    /\ \A c \in ForbiddenChars : ~Contains(image, c)
    /\ ~(ContainsDotDot(image) /\ Contains(image, "/"))
    /\ \A i \in 1..Len(image) : image[i] \in ValidChars
    /\ image[1] \in AlnumChars
    /\ image[Len(image)] \in AlnumChars

\* Characters that the tried references are made of: a letter, the dot, the
\* slash, the colon and a forbidden character.
RefChars == {"a", ".", "/", ":", ";"}

RECURSIVE SeqsUpTo(_, _)
SeqsUpTo(S, n) ==
    IF n = 0 THEN {<<>>}
    ELSE LET shorter == SeqsUpTo(S, n - 1) IN
         shorter \cup {Append(q, c) : q \in {x \in shorter : Len(x) = n - 1}, c \in S}

Repeat(c, n) == [i \in 1..n |-> c]

\* The references tried: every string over RefChars up to MaxRefLen characters,
\* the references of the requests above, strings of 512 and of 513 bytes, an
\* upper-case letter, a non-ASCII letter, a space.
TriedRefs ==
    SeqsUpTo(RefChars, MaxRefLen)
    \cup ImageRefs
    \cup {Repeat("a", MAX_IMAGE_REF_LENGTH), Repeat("a", MAX_IMAGE_REF_LENGTH + 1),
          Append(Repeat("a", MAX_IMAGE_REF_LENGTH - 1), "."),
          <<"A", "b">>, <<"NONASCII", "a">>, <<"a", " ", "a">>, <<"a", "_", "@", "-", "b">>}

IdleVref == [called |-> FALSE, image |-> <<>>, ok |-> FALSE]

\* A call of validate_image_reference, as handle_run makes it on the image of
\* a Run request.
ValidateCall(image) ==
    /\ ~vref.called
    /\ vref' = [called |-> TRUE, image |-> image, ok |-> validate_image_reference(image)]
    /\ UNCHANGED notVref

ValidateDone ==
    /\ vref.called
    /\ vref' = IdleVref
    /\ UNCHANGED notVref


\* AgentRequest values; "Invalid" stands for a payload that serde_json does not
\* parse into a known request variant.
Req(kind, image, command) == [kind |-> kind, image |-> image, command |-> command]

TypedRequests ==
    {Req("Ping", <<>>, <<>>), Req("Shutdown", <<>>, <<>>)}
    \cup {Req("Pull", i, <<>>) : i \in ImageRefs}
    \cup {Req("Run", RefAlpine, c) : c \in {<<>>, <<"/bin/echo">>}}
    \cup {Req("PrepareOverlay", RefAlpine, <<>>), Req("CleanupOverlay", <<>>, <<>>)}

\* AgentResponse values.
Resp(type, code, shutdown) == [type |-> type, code |-> code, shutdown |-> shutdown]

\* Outcomes of the storage layer behind a handler (crates/smolvm-agent
\* storage.rs): Ok, Ok(None) for a query, or Err.
StorageOutcomes == {"ok", "none", "err"}

ErrorOr(out, code, okResp) == IF out = "err" THEN Resp("Error", code, FALSE) ELSE okResp

\* main.rs handle_request and the handle_* functions it dispatches to.
handle_request(req, out) ==
    CASE req.kind = "Ping" -> Resp("Pong", "", FALSE)
      [] req.kind = "Pull" -> ErrorOr(out, "PULL_FAILED", Resp("Ok", "", FALSE))
      [] req.kind = "Query" ->
            IF out = "none" THEN Resp("Error", "NOT_FOUND", FALSE)
            ELSE ErrorOr(out, "QUERY_FAILED", Resp("Ok", "", FALSE))
      [] req.kind = "ListImages" -> ErrorOr(out, "LIST_FAILED", Resp("Ok", "", FALSE))
      [] req.kind = "GarbageCollect" -> ErrorOr(out, "GC_FAILED", Resp("Ok", "", FALSE))
      [] req.kind = "PrepareOverlay" -> ErrorOr(out, "OVERLAY_FAILED", Resp("Ok", "", FALSE))
      [] req.kind = "CleanupOverlay" -> ErrorOr(out, "CLEANUP_FAILED", Resp("Ok", "", FALSE))
      [] req.kind = "FormatStorage" -> ErrorOr(out, "FORMAT_FAILED", Resp("Ok", "", FALSE))
      [] req.kind = "StorageStatus" -> ErrorOr(out, "STATUS_FAILED", Resp("Ok", "", FALSE))
      [] req.kind = "Shutdown" -> Resp("Ok", "", TRUE)
      [] req.kind = "Run" -> ErrorOr(out, "RUN_FAILED", Resp("Completed", "", FALSE))

\* Whether handle_request hands the request to the storage layer.
dispatches(req) == req.kind \notin {"Ping", "Shutdown"}

\* Variant: the parse failure is reported under another code.
invalid_request_response_InternalError == Resp("Error", "INTERNAL_ERROR", FALSE)

\* handle_connection, lines 91-101: the reply to a payload that does not parse.
invalid_request_response == Resp("Error", "INVALID_REQUEST", FALSE)

\* handle_connection, lines 82-85: the buffer grows to the declared length.
grow_buf(buf, len) == IF len > buf THEN len ELSE buf

\* A frame sent to the agent: declared length, whether the 4 header bytes and
\* the whole payload arrive before the stream ends, and the parsed payload.
Frame(len, hdr, pay, req) == [len |-> len, hdr |-> hdr, pay |-> pay, req |-> req]

\* A frame written by send_response: its length is that of the JSON.
RespFrame(resp) == [len |-> 27, pay |-> TRUE, resp |-> resp]

ClosedAg(reason) == [ag EXCEPT !.pc = "closed", !.reason = reason]

\* The connection has one writer: an AgentClient, or a peer that writes raw
\* frames (peer.raw). A raw peer writes a whole frame; the payload is a known
\* request or not.
PeerSend(len, req) ==
    /\ ~peer.eof
    /\ cl.pc = "idle"
    /\ peer.sent < MaxFrames
    /\ inq' = Append(inq, Frame(len, TRUE, TRUE, req))
    /\ peer' = [peer EXCEPT !.sent = peer.sent + 1, !.raw = TRUE]
    /\ UNCHANGED <<ag, agOut, cin, cl, procVars, hostVars>>

\* A peer writes part of a frame (the header only, or less) and closes.
PeerSendTruncated(len, hdr) ==
    /\ ~peer.eof
    /\ cl.pc = "idle"
    /\ peer.sent < MaxFrames
    /\ inq' = Append(inq, Frame(len, hdr, FALSE, Req("Invalid", <<>>, <<>>)))
    /\ peer' = [peer EXCEPT !.eof = TRUE, !.sent = peer.sent + 1, !.raw = TRUE]
    /\ UNCHANGED <<ag, agOut, cin, cl, procVars, hostVars>>

\* A peer closes its side at a frame boundary.
PeerClose ==
    /\ ~peer.eof
    /\ cl.pc # "await"
    /\ peer' = [peer EXCEPT !.eof = TRUE]
    /\ UNCHANGED <<inq, ag, agOut, cin, cl, procVars, hostVars>>

\* handle_connection, lines 72-85: read the 4-byte header, size the buffer.
AgentReadHeader ==
    /\ ag.pc = "header"
    /\ IF inq = <<>>
       THEN /\ peer.eof
            /\ ag' = ClosedAg("eof")
            /\ UNCHANGED inq
       ELSE IF ~Head(inq).hdr
       THEN /\ ag' = ClosedAg("eof")
            /\ inq' = Tail(inq)
       ELSE /\ ag' = [ag EXCEPT !.pc = "payload", !.len = Head(inq).len,
                                !.buf = grow_buf(ag.buf, Head(inq).len),
                                !.nhdr = ag.nhdr + 1]
            /\ UNCHANGED inq
    /\ UNCHANGED <<peer, agOut, cin, cl, procVars, hostVars>>

\* handle_connection, line 79: the header read fails with another I/O error.
AgentReadError ==
    /\ ag.pc = "header"
    /\ ag' = ClosedAg("io_error")
    /\ UNCHANGED <<inq, peer, agOut, cin, cl, procVars, hostVars>>

\* The storage layer's overlay of the one workload id of the model: present
\* after a PrepareOverlay that succeeds, absent after a CleanupOverlay that
\* succeeds.
overlay_after(ov, req, out) ==
    CASE req.kind = "PrepareOverlay" /\ out # "err" -> TRUE
      [] req.kind = "CleanupOverlay" /\ out # "err" -> FALSE
      [] OTHER -> ov

\* handle_connection, lines 87-118: read the payload, parse it, handle the
\* request, write the response (wok: the write succeeds), check for shutdown.
\* `silent` is the set of request kinds whose response is not written; the
\* code writes every response, so it is empty there.
HandleFrameWith(out, wok, silent) ==
    /\ ag.pc = "payload"
    /\ LET f == Head(inq)
           resp == IF f.req.kind = "Invalid" THEN invalid_request_response
                   ELSE handle_request(f.req, out)
           ov == overlay_after(ag.ov, f.req, out)
           after == IF resp.type = "Ok" /\ resp.shutdown
                    THEN [ClosedAg("shutdown") EXCEPT !.nread = ag.nread + 1, !.ov = ov]
                    ELSE [ag EXCEPT !.pc = "header", !.nread = ag.nread + 1, !.ov = ov]
       IN
       /\ inq' = Tail(inq)
       /\ IF ~f.pay
          THEN /\ ag' = ClosedAg("io_error")
               /\ UNCHANGED <<agOut, cin>>
          ELSE IF f.req.kind \in silent
          THEN /\ ag' = after
               /\ UNCHANGED <<agOut, cin>>
          ELSE IF ~wok
          THEN /\ ag' = [ClosedAg("io_error") EXCEPT !.nread = ag.nread + 1, !.ov = ov]
               /\ UNCHANGED <<agOut, cin>>
          ELSE /\ agOut' = Append(agOut, [id |-> ag.nread + 1, req |-> f.req,
                                          resp |-> resp, had |-> ag.ov,
                                          dispatched |-> f.req.kind # "Invalid"
                                                         /\ dispatches(f.req)])
               /\ cin' = Append(cin, RespFrame(resp))
               /\ ag' = after
    /\ UNCHANGED <<peer, cl, procVars, hostVars>>

\* Variant: a payload that does not parse is dropped without a reply.
AgentHandleFrame_SilentOnInvalid(out, wok) ==
    HandleFrameWith(out, wok, {"Invalid"})

\* Variant: Shutdown ends the loop before the reply is written.
AgentHandleFrame_SilentOnShutdown(out, wok) ==
    HandleFrameWith(out, wok, {"Shutdown"})

AgentHandleFrame(out, wok) == HandleFrameWith(out, wok, {})


\* ------------------------------------------------- agent/client.rs AgentClient

\* ecode is the code carried by the error returned to the caller; rcode and
\* rtype are ghosts, the code and the type of the response that was read.
IdleCl == [pc |-> "idle", op |-> "none", result |-> "none", why |-> "none",
           buf |-> 0, ecode |-> "none", rcode |-> "none", rtype |-> "none"]

\* The error built from an Error response: `AgentResponse::Error { message, .. }
\* => Err(Error::AgentError(message))`; AgentError holds the message alone.
agent_error_code(resp) == "none"

\* The match on the response in ping, pull, shutdown and run_with_mounts.
match_response(op, resp) ==
    CASE resp.type = "Error" -> "err_agent"
      [] resp.type = "Garbage" -> "err_parse"
      [] op = "Ping" /\ resp.type = "Pong" -> "ok"
      [] op \in {"Pull", "Shutdown", "PrepareOverlay", "CleanupOverlay"}
           /\ resp.type = "Ok" -> "ok"
      [] op = "Run" /\ resp.type = "Completed" -> "ok"
      [] OTHER -> "err_unexpected"

\* AgentClient::request, lines 45-48: encode the request and write it; the
\* write can fail once the agent has closed the connection.
ClientRequest(req, wok) ==
    /\ cl.pc \in {"idle", "done"}
    /\ ~peer.eof
    /\ ~peer.raw
    /\ peer.sent < MaxFrames
    /\ IF wok \/ ag.pc # "closed"
       THEN /\ inq' = Append(inq, Frame(15, TRUE, TRUE, req))
            /\ peer' = [peer EXCEPT !.sent = peer.sent + 1]
            /\ cl' = [IdleCl EXCEPT !.pc = "await", !.op = req.kind, !.buf = cl.buf]
       ELSE /\ cl' = [IdleCl EXCEPT !.pc = "done", !.op = req.kind, !.buf = cl.buf,
                                    !.result = "err_io", !.why = "write_failed"]
            /\ UNCHANGED <<inq, peer>>
    /\ UNCHANGED <<ag, agOut, cin, procVars, hostVars>>

\* AgentClient::read_response, lines 55-72, and the caller's match: read the
\* header, allocate `vec![0u8; len]`, read the payload, parse it.
ClientReadResponse ==
    /\ cl.pc = "await"
    /\ IF cin = <<>>
       THEN /\ ag.pc = "closed"
            /\ cl' = [cl EXCEPT !.pc = "done", !.result = "err_io",
                                !.why = "read_header_failed"]
            /\ UNCHANGED cin
       ELSE /\ cin' = Tail(cin)
            /\ cl' = IF Head(cin).pay
                     THEN [cl EXCEPT !.pc = "done", !.buf = Head(cin).len,
                                     !.result = match_response(cl.op, Head(cin).resp),
                                     !.ecode = IF Head(cin).resp.type = "Error"
                                               THEN agent_error_code(Head(cin).resp)
                                               ELSE "none",
                                     !.rcode = IF Head(cin).resp.type = "Error"
                                               THEN Head(cin).resp.code
                                               ELSE "none",
                                     !.rtype = Head(cin).resp.type]
                     ELSE [cl EXCEPT !.pc = "done", !.buf = Head(cin).len,
                                     !.result = "err_io",
                                     !.why = "read_payload_failed"]
    /\ UNCHANGED <<inq, peer, ag, agOut, procVars, hostVars>>

\* The stream towards the client carries a frame that is not a response of
\* this agent (a corrupted or foreign peer): any declared length.
WireToClient(len, pay) ==
    /\ cl.pc = "await"
    /\ cin = <<>>
    /\ cin' = <<[len |-> len, pay |-> pay, resp |-> Resp("Garbage", "", FALSE)]>>
    /\ UNCHANGED <<inq, peer, ag, agOut, cl, procVars, hostVars>>

\* An agent that reports progress writes a non-terminal Progress frame while
\* the client waits for the outcome of its Pull.
WireProgressToClient ==
    /\ cl.pc = "await"
    /\ cl.op = "Pull"
    /\ cin = <<>>
    /\ cin' = <<RespFrame(Resp("Progress", "", FALSE))>>
    /\ UNCHANGED <<inq, peer, ag, agOut, cl, procVars, hostVars>>

InitAgent ==
    /\ inq = <<>>
    /\ peer = [eof |-> FALSE, sent |-> 0, raw |-> FALSE]
    /\ ag = [pc |-> "header", len |-> 0, buf |-> InitialBufLen, nhdr |-> 0,
             nread |-> 0, reason |-> "open", ov |-> FALSE]
    /\ agOut = <<>>
    /\ cin = <<>>
    /\ cl = IdleCl

RawRequests ==
    {Req("Invalid", <<>>, <<>>), Req("Ping", <<>>, <<>>), Req("Shutdown", <<>>, <<>>)}

NextAgent ==
    \/ \E len \in FrameLens, req \in RawRequests : PeerSend(len, req)
    \/ \E len \in FrameLens, hdr \in BOOLEAN : PeerSendTruncated(len, hdr)
    \/ PeerClose
    \/ AgentReadHeader
    \/ AgentReadError
    \/ \E out \in StorageOutcomes, wok \in BOOLEAN : AgentHandleFrame(out, wok)
    \/ \E req \in TypedRequests, wok \in BOOLEAN : ClientRequest(req, wok)
    \/ ClientReadResponse
    \/ \E len \in FrameLens, pay \in BOOLEAN : WireToClient(len, pay)
    \/ WireProgressToClient

\* ------------------------------------- smolvm-agent main.rs run_server

\* Connections that clients make to the one listener of the agent.
Conns == {1, 2}

\* Requests that change the layer store or the overlays, and one that does not.
MutatingKinds == {"Pull", "GarbageCollect", "PrepareOverlay", "CleanupOverlay"}
ServerKinds == MutatingKinds \cup {"Ping"}

\* srv.c[j]: the connection as the client sees it ("none", "open", "closed",
\* or "broken" when reads and writes on it fail), whether the listener has
\* accepted it, the request written and not yet answered, and the numbers of
\* requests sent and answered.
\* srv.handlers: the connections inside handle_connection.
\* srv.running: the requests inside handle_request, with their connection.
\* srv.alive: run_server has not returned (main exits the process when it does).
\* srv.down: a Shutdown request has been answered.
\* srv.connErrs, srv.acceptErrs: the "connection error" and "accept error"
\* warnings logged by run_server.
IdleSrv == [c |-> [j \in Conns |-> [st |-> "none", accepted |-> FALSE, req |-> "none",
                                    sent |-> 0, answered |-> 0]],
            handlers |-> {}, running |-> {},
            alive |-> TRUE, down |-> FALSE, connErrs |-> 0, acceptErrs |-> 0]

\* A server that hands every accepted connection to a thread of its own.
may_accept_ThreadPerConnection(s) == TRUE

\* run_server, lines 50-63: handle_connection is called inside the accept loop,
\* which goes on to the next accept only when it has returned.
may_accept(s) == s.handlers = {}

\* A client connects; the kernel completes the connect and queues the
\* connection for the listener.
SrvConnect(j) ==
    /\ srv.c[j].st = "none"
    /\ srv' = [srv EXCEPT !.c[j].st = "open"]
    /\ UNCHANGED notSrv

\* A client writes a request; one request at a time on a connection.
SrvSend(j, kind) ==
    /\ srv.c[j].st = "open"
    /\ srv.c[j].req = "none"
    /\ srv.c[j].sent < MaxReqs
    /\ srv' = [srv EXCEPT !.c[j].req = kind, !.c[j].sent = @ + 1]
    /\ UNCHANGED notSrv

\* A client that waits for no response closes its connection.
SrvClose(j) ==
    /\ srv.c[j].st = "open"
    /\ srv.c[j].req = "none"
    /\ srv' = [srv EXCEPT !.c[j].st = "closed"]
    /\ UNCHANGED notSrv

\* run_server, lines 50-54: listener.accept() returns the connection.
ServerAccept(j) ==
    /\ may_accept(srv)
    /\ srv.c[j].st # "none"
    /\ ~srv.c[j].accepted
    /\ srv' = [srv EXCEPT !.c[j].accepted = TRUE, !.handlers = @ \cup {j}]
    /\ UNCHANGED notSrv

\* handle_connection, lines 72-106: a frame is read and parsed and
\* handle_request entered.
ServerBegin(j) ==
    /\ j \in srv.handlers
    /\ srv.c[j].req # "none"
    /\ \A x \in srv.running : x.conn # j
    /\ srv' = [srv EXCEPT !.running = @ \cup {[conn |-> j, kind |-> srv.c[j].req]}]
    /\ UNCHANGED notSrv

\* handle_connection, lines 106-118: handle_request returns and the response is
\* sent; after the response to Shutdown the handler returns Ok and run_server
\* drops the stream, which closes the connection.
ServerRespond(j) ==
    /\ \E x \in srv.running :
          /\ x.conn = j
          /\ srv' = [srv EXCEPT !.running = {y \in @ : y.conn # j},
                                !.c[j].req = "none", !.c[j].answered = @ + 1,
                                !.c[j].st = IF x.kind = "Shutdown" THEN "closed" ELSE @,
                                !.handlers = IF x.kind = "Shutdown" THEN @ \ {j} ELSE @,
                                !.down = @ \/ x.kind = "Shutdown"]
    /\ UNCHANGED notSrv

\* handle_connection, lines 73-78: end of stream on the header read; the
\* handler returns.
ServerEof(j) ==
    /\ j \in srv.handlers
    /\ srv.c[j].st = "closed"
    /\ srv' = [srv EXCEPT !.handlers = @ \ {j}]
    /\ UNCHANGED notSrv

ServerStep ==
    \E j \in Conns : ServerAccept(j) \/ ServerBegin(j) \/ ServerRespond(j) \/ ServerEof(j)

\* A connection breaks (the peer is reset, the transport fails): from then on
\* the agent's reads and writes on it return an error.
SrvBreak(j) ==
    /\ srv.c[j].st = "open"
    /\ srv' = [srv EXCEPT !.c[j].st = "broken"]
    /\ UNCHANGED notSrv

\* A run_server whose loop hands the handler's error on with `?`: run_server
\* returns and main exits the process.
connection_failed_Propagates(s, j) ==
    [s EXCEPT !.handlers = @ \ {j}, !.running = {x \in @ : x.conn # j},
              !.alive = FALSE]

\* run_server, lines 54-56: handle_connection returned Err; the error is
\* logged and the loop goes on to the next accept.
connection_failed(s, j) ==
    [s EXCEPT !.handlers = @ \ {j}, !.running = {x \in @ : x.conn # j},
              !.connErrs = Min(@ + 1, MaxFaults)]

\* run_server, lines 58-60: accept returned Err; the error is logged and the
\* loop goes on to the next accept.
accept_failed(s) == [s EXCEPT !.acceptErrs = @ + 1]

\* handle_connection, lines 79 and 88: a read of the header or of the payload
\* fails with an error that is not the end of the stream.
ServerReadError(j) ==
    /\ j \in srv.handlers
    /\ srv.c[j].st = "broken"
    /\ \A x \in srv.running : x.conn # j
    /\ srv' = connection_failed(srv, j)
    /\ UNCHANGED notSrv

\* handle_connection, lines 96-99 and 107: send_response fails.
ServerWriteError(j) ==
    /\ srv.c[j].st = "broken"
    /\ \E x \in srv.running : x.conn = j
    /\ srv' = connection_failed(srv, j)
    /\ UNCHANGED notSrv

\* run_server, lines 50 and 58-60: listener.accept() fails.
ServerAcceptFail ==
    /\ may_accept(srv)
    /\ srv.acceptErrs < MaxFaults
    /\ srv' = accept_failed(srv)
    /\ UNCHANGED notSrv

ListenerStep ==
    \/ ServerStep
    \/ \E j \in Conns : ServerReadError(j) \/ ServerWriteError(j)

\* ------------------------------------- the guest's layer store and its collector

\* Layer digests, image references with the layers of their manifests, and
\* workload ids.
Layers == {1, 2, 3}
Images == {"a", "b"}
LayersOf(image) == IF image = "a" THEN {1, 2} ELSE {2, 3}
Workloads == {1, 2}

\* ls.manifests: the cached manifests; ls.layers: the digests with a directory
\* under /layers; ls.ov[w]: the image of the overlay of workload w, or "none";
\* ls.last, ls.ok: the last request handled and whether it was answered Ok;
\* ls.pre: ghost, the store as it was before that request.
Disk(s) == [manifests |-> s.manifests, layers |-> s.layers, ov |-> s.ov]
EmptyDisk == [manifests |-> {}, layers |-> {}, ov |-> [w \in Workloads |-> "none"]]
IdleLs == [manifests |-> {}, layers |-> {}, ov |-> [w \in Workloads |-> "none"],
           last |-> "none", ok |-> TRUE, pre |-> EmptyDisk]

\* The reference count of a layer: the number of cached manifests that mention it.
refcount(s, l) == Cardinality({i \in s.manifests : l \in LayersOf(i)})

\* A live overlay was prepared from an image that has the layer.
held_by_overlay(s, l) ==
    \E w \in Workloads : s.ov[w] # "none" /\ l \in LayersOf(s.ov[w])

\* The layers the collector may remove.
eligible(s) ==
    {l \in s.layers : refcount(s, l) = 0 /\ ~held_by_overlay(s, l)}

\* A collector that looks at the overlays only.
garbage_collect_IgnoresRefcount(s, dry_run) ==
    IF dry_run THEN s
    ELSE [s EXCEPT !.layers = {l \in @ : held_by_overlay(s, l)}]

\* storage::garbage_collect: with dry_run the store is left as it is.
garbage_collect(s, dry_run) ==
    IF dry_run THEN s ELSE [s EXCEPT !.layers = @ \ eligible(s)]

\* main.rs handle_gc, lines 233-234: dry_run is handed to the collector.
handle_gc(s, dry_run) == garbage_collect(s, dry_run)

LsDone(s, name, ok) == [s EXCEPT !.last = name, !.ok = ok, !.pre = Disk(ls)]

\* handle_pull with storage::pull_image returning Ok: the layers are
\* extracted, the manifest is written.
LsPull(image) ==
    /\ ls' = LsDone([ls EXCEPT !.manifests = @ \cup {image},
                               !.layers = @ \cup LayersOf(image)], "Pull", TRUE)
    /\ UNCHANGED notLs

\* handle_pull with storage::pull_image returning Err after it has extracted
\* the layers in `done`: no manifest is written.
LsPullFail(image, done) ==
    /\ image \notin ls.manifests
    /\ done \subseteq LayersOf(image)
    /\ done # LayersOf(image)
    /\ ls' = LsDone([ls EXCEPT !.layers = @ \cup done], "Pull", FALSE)
    /\ UNCHANGED notLs

\* A cached manifest is removed.
LsRemoveManifest(image) ==
    /\ image \in ls.manifests
    /\ ls' = LsDone([ls EXCEPT !.manifests = @ \ {image}], "RemoveManifest", TRUE)
    /\ UNCHANGED notLs

\* handle_prepare_overlay: Ok for a cached image and a workload without overlay.
LsPrepareOverlay(image, w) ==
    /\ IF image \in ls.manifests /\ ls.ov[w] = "none"
       THEN ls' = LsDone([ls EXCEPT !.ov[w] = image], "PrepareOverlay", TRUE)
       ELSE ls' = LsDone(ls, "PrepareOverlay", FALSE)
    /\ UNCHANGED notLs

\* handle_cleanup_overlay: Ok for a workload with an overlay.
LsCleanupOverlay(w) ==
    /\ IF ls.ov[w] # "none"
       THEN ls' = LsDone([ls EXCEPT !.ov[w] = "none"], "CleanupOverlay", TRUE)
       ELSE ls' = LsDone(ls, "CleanupOverlay", FALSE)
    /\ UNCHANGED notLs

\* handle_gc, lines 233-246.
LsGarbageCollect(dry_run) ==
    /\ ls' = LsDone(handle_gc(ls, dry_run),
                    IF dry_run THEN "GarbageCollectDry" ELSE "GarbageCollect", TRUE)
    /\ UNCHANGED notLs

\* ------------------------------------------------- api/state.rs ApiState

\* Sandbox names; a name is registered at most once in a behaviour, so that a
\* name stands for one entry (one Arc<Mutex<SandboxEntry>>).
Names == 1..MaxNames

\* Request threads of the API server: one that executes in a sandbox, one
\* that lists, one that registers and removes.
Threads == {"exec", "list", "admin"}

IdleThread == [pc |-> "idle", op |-> "none", sb |-> 0, todo |-> {}]

\* reg.members: the names in the registry map; reg.used: ghost, the names ever
\* registered; reg.readers, reg.writer: the holders of the registry RwLock;
\* reg.owner[n]: the holder of the entry lock of n; reg.t: the threads.
IdleReg == [members |-> {}, used |-> {}, readers |-> {}, writer |-> "none",
            owner |-> [n \in Names |-> "none"],
            t |-> [x \in Threads |-> IdleThread]]

\* parking_lot RwLock: read() is granted while no writer holds the lock,
\* write() while nobody holds it.
can_read(r) == r.writer = "none"
can_write(r) == r.writer = "none" /\ r.readers = {}

holds_registry(r, x) == x \in r.readers \/ r.writer = x

\* The thread is at entry.lock() and another thread holds that lock.
waits_for_entry(r, x) ==
    r.t[x].pc = "want_entry" /\ r.owner[r.t[x].sb] # "none"

\* A handler calls register_sandbox or remove_sandbox.
AdminCall(op, n) ==
    /\ reg.t["admin"].pc = "idle"
    /\ op = "register" => n \notin reg.used
    /\ reg' = [reg EXCEPT !.t["admin"] = [pc |-> "want_write", op |-> op, sb |-> n,
                                          todo |-> {}]]
    /\ UNCHANGED notReg

\* register_sandbox line 45, remove_sandbox line 75: self.sandboxes.write().
AdminAcquire ==
    /\ reg.t["admin"].pc = "want_write"
    /\ can_write(reg)
    /\ reg' = [reg EXCEPT !.writer = "admin", !.t["admin"].pc = "locked"]
    /\ UNCHANGED notReg

\* register_sandbox lines 46-62 (Conflict for a name that is there),
\* remove_sandbox lines 75-77; the guard is dropped at the return.
AdminFinish ==
    /\ reg.t["admin"].pc = "locked"
    /\ LET n == reg.t["admin"].sb IN
       reg' = [reg EXCEPT !.writer = "none",
                          !.t["admin"] = IdleThread,
                          !.members = IF reg.t["admin"].op = "register"
                                      THEN @ \cup {n} ELSE @ \ {n},
                          !.used = IF reg.t["admin"].op = "register"
                                   THEN @ \cup {n} ELSE @]
    /\ UNCHANGED notReg

\* exec_command calls get_sandbox(name).
ExecCall(n) ==
    /\ reg.t["exec"].pc = "idle"
    /\ reg' = [reg EXCEPT !.t["exec"] = [pc |-> "want_read", op |-> "exec", sb |-> n,
                                         todo |-> {}]]
    /\ UNCHANGED notReg

\* get_sandbox line 66: self.sandboxes.read().
ExecAcquire ==
    /\ reg.t["exec"].pc = "want_read"
    /\ can_read(reg)
    /\ reg' = [reg EXCEPT !.readers = @ \cup {"exec"}, !.t["exec"].pc = "reading"]
    /\ UNCHANGED notReg

\* get_sandbox lines 67-70: the Arc is cloned or NotFound returned; the read
\* guard is dropped at the return. exec_command then goes for the entry lock.
ExecGot ==
    /\ reg.t["exec"].pc = "reading"
    /\ reg' = [reg EXCEPT !.readers = @ \ {"exec"},
                          !.t["exec"] = IF reg.t["exec"].sb \in reg.members
                                        THEN [@ EXCEPT !.pc = "want_entry"]
                                        ELSE IdleThread]
    /\ UNCHANGED notReg

\* exec_command line 62: entry_clone.lock() inside spawn_blocking.
ExecLock ==
    /\ reg.t["exec"].pc = "want_entry"
    /\ reg.owner[reg.t["exec"].sb] = "none"
    /\ reg' = [reg EXCEPT !.owner[reg.t["exec"].sb] = "exec", !.t["exec"].pc = "running"]
    /\ UNCHANGED notReg

\* exec_command lines 63-65: the command has run (up to an hour); the entry
\* guard is dropped.
ExecDone ==
    /\ reg.t["exec"].pc = "running"
    /\ reg' = [reg EXCEPT !.owner[reg.t["exec"].sb] = "none", !.t["exec"] = IdleThread]
    /\ UNCHANGED notReg

\* A handler calls list_sandboxes.
ListCall ==
    /\ reg.t["list"].pc = "idle"
    /\ reg' = [reg EXCEPT !.t["list"] = [pc |-> "want_read", op |-> "list", sb |-> 0,
                                         todo |-> {}]]
    /\ UNCHANGED notReg

\* list_sandboxes line 83: self.sandboxes.read(); the iteration starts.
ListAcquire ==
    /\ reg.t["list"].pc = "want_read"
    /\ can_read(reg)
    /\ reg' = [reg EXCEPT !.readers = @ \cup {"list"},
                          !.t["list"].pc = "iter", !.t["list"].todo = reg.members]
    /\ UNCHANGED notReg

\* list_sandboxes lines 84-87: the iteration comes to the next entry and
\* calls entry.lock(); after the last one the read guard is dropped.
ListNext ==
    /\ reg.t["list"].pc = "iter"
    /\ IF reg.t["list"].todo = {}
       THEN reg' = [reg EXCEPT !.readers = @ \ {"list"}, !.t["list"] = IdleThread]
       ELSE \E n \in reg.t["list"].todo :
              reg' = [reg EXCEPT !.t["list"].pc = "want_entry", !.t["list"].sb = n]
    /\ UNCHANGED notReg

\* list_sandboxes line 87: entry.lock() is granted.
ListLock ==
    /\ reg.t["list"].pc = "want_entry"
    /\ reg.owner[reg.t["list"].sb] = "none"
    /\ reg' = [reg EXCEPT !.owner[reg.t["list"].sb] = "list", !.t["list"].pc = "entry"]
    /\ UNCHANGED notReg

\* list_sandboxes lines 88-97: the SandboxInfo is built and the entry guard
\* dropped at the end of the closure.
ListEntryDone ==
    /\ reg.t["list"].pc = "entry"
    /\ reg' = [reg EXCEPT !.owner[reg.t["list"].sb] = "none",
                          !.t["list"].pc = "iter",
                          !.t["list"].todo = @ \ {reg.t["list"].sb}]
    /\ UNCHANGED notReg

\* ------------------------------------- smolvm-agent paths.rs, overlay handlers

\* A string is a sequence of characters; a path is the sequence of its
\* components, as std::path compares paths: empty components and "." are
\* dropped, ".." is kept.
IdChars == {"a", ".", "/"}
WorkloadIds == SeqsUpTo(IdChars, MaxIdLen)

RECURSIVE Split(_)
Split(str) ==
    IF str = <<>> THEN << <<>> >>
    ELSE LET rest == Split(Tail(str)) IN
         IF Head(str) = "/" THEN << <<>> >> \o rest
         ELSE << <<Head(str)>> \o Head(rest) >> \o Tail(rest)

IsKept(c) == c # <<>> /\ c # <<".">>
Components(str) == SelectSeq(Split(str), IsKept)

\* PathBuf::join: an absolute argument replaces the path, a relative one is
\* appended to it.
join(base, str) ==
    IF str # <<>> /\ Head(str) = "/" THEN Components(str)
    ELSE base \o Components(str)

\* The directory a path names once ".." is followed; the parent of the root
\* is the root.
RECURSIVE Resolve(_)
Resolve(path) ==
    IF path = <<>> THEN <<>>
    ELSE LET front == Resolve(SubSeq(path, 1, Len(path) - 1))
             last == path[Len(path)] IN
         IF last = <<".", ".">>
         THEN (IF front = <<>> THEN <<>> ELSE SubSeq(front, 1, Len(front) - 1))
         ELSE Append(front, last)

\* paths.rs OVERLAYS_DIR = "/storage/overlays".
OVERLAYS_DIR == << <<"storage">>, <<"overlays">> >>

\* paths.rs lines 121-144.
overlay_dir(workload_id) == join(OVERLAYS_DIR, workload_id)
bundle_dir(workload_id) == join(overlay_dir(workload_id), <<"b", "u", "n", "d", "l", "e">>)
merged_rootfs_path(workload_id) == join(overlay_dir(workload_id), <<"m", "e", "r", "g", "e", "d">>)
upper_dir(workload_id) == join(overlay_dir(workload_id), <<"u", "p", "p", "e", "r">>)
work_dir(workload_id) == join(overlay_dir(workload_id), <<"w", "o", "r", "k">>)

overlay_tree(workload_id) ==
    {bundle_dir(workload_id), merged_rootfs_path(workload_id),
     upper_dir(workload_id), work_dir(workload_id)}

IsPrefix(p, q) == Len(p) <= Len(q) /\ SubSeq(q, 1, Len(p)) = p

\* The root of the id is the directory named by the id directly under
\* /storage/overlays.
root_is_own(workload_id) ==
    Resolve(overlay_dir(workload_id)) = Append(OVERLAYS_DIR, workload_id)

IdleOvl == [fn |-> "none", id |-> <<>>, dispatched |-> FALSE, reply |-> "none",
            root |-> <<>>, tree |-> {}]

\* main.rs handle_prepare_overlay (lines 249-262) and handle_cleanup_overlay
\* (lines 265-274): the id goes to the storage layer as received; Err becomes
\* OVERLAY_FAILED or CLEANUP_FAILED. When the storage layer acts on the id
\* (out = "ok") the tree of the id is the one paths.rs names.
overlay_handler(fn, workload_id, out) ==
    [fn |-> fn, id |-> workload_id, dispatched |-> TRUE,
     reply |-> IF out = "ok" THEN "Ok"
               ELSE IF fn = "PrepareOverlay" THEN "OVERLAY_FAILED" ELSE "CLEANUP_FAILED",
     root |-> IF out = "ok" THEN overlay_dir(workload_id) ELSE <<>>,
     tree |-> IF out = "ok" THEN overlay_tree(workload_id) ELSE {}]

OverlayCall(fn, workload_id, out) ==
    /\ ovl.fn = "none"
    /\ ovl' = overlay_handler(fn, workload_id, out)
    /\ UNCHANGED notOvl

OverlayDone ==
    /\ ovl.fn # "none"
    /\ ovl' = IdleOvl
    /\ UNCHANGED notOvl

\* ------------------------------------------------------------ specification

Init ==
    /\ procs = [p \in Pids |-> FreeProc]
    /\ clock = 1
    /\ rec = [state |-> "Created", pid |-> 0, gstart |-> 0]
    /\ stopc = [pc |-> "idle", force |-> FALSE, pid |-> 0, result |-> "none"]
    /\ sp = [c \in Callers |-> IdleSp]
    /\ sigLog = {}
    /\ pk = IdlePk
    /\ InitAgent
    /\ sup = IdleSup
    /\ cfg = IdleCfg
    /\ chp = IdleChp
    /\ rt = IdleRt
    /\ conn = IdleConn
    /\ dk = IdleDk
    /\ dec = IdleDec
    /\ vref = IdleVref
    /\ srv = IdleSrv
    /\ ls = IdleLs
    /\ reg = IdleReg
    /\ startc = IdleStartc
    /\ ovl = IdleOvl
    /\ shut = IdleShut

\* The `stop` command against a named VM started by an earlier invocation.
\* stop_process never reaches its timeout here: the pid is not a child of the
\* `stop` process, so its first try_wait returns Some(-1).
NextStop ==
    \/ SpCheck("stop")
    \/ SpTerminate("stop")
    \/ SpPoll("stop")
    \/ \E p \in Pids : ProcExit(p)
    \/ \E p \in Pids : OtherSpawn(p)
    \/ \E p \in Pids : StartCmdRun(p)
    \/ \E f \in BOOLEAN : StopRun(f)
    \/ StopAliveCheck
    \/ StopReturn
    \/ StopExit

SpecStop == Init /\ [][NextStop]_vars

\* The packed run, its forked child and its ChildGuard.
NextPacked ==
    \/ SpCheck("pk")
    \/ SpTerminate("pk")
    \/ SpPoll("pk")
    \/ SpTimeout("pk")
    \/ \E p \in Pids : ProcExit(p)
    \/ \E p \in Pids : OtherSpawn(p)
    \/ \E p \in Pids : ProcInfoReady(p)
    \/ \E p \in Pids : PkFork(p)
    \/ PkForkFail
    \/ PkCapture
    \/ PkRetry
    \/ PkCheck
    \/ PkFailCleanup
    \/ \E ok \in BOOLEAN : PkWaitAgent(ok)
    \/ \E ok \in BOOLEAN : PkExec(ok)
    \/ ChildGuardDrop
    \/ ChildGuardStopped
    \/ ChildGuardRemoveDir
    \/ PkExit

SpecPacked == Init /\ [][NextPacked]_vars

\* The record store under its operations, with later invocations loading it
\* afresh.
NextStore ==
    \/ ConfigLoad
    \/ \E r \in Records, dbok \in BOOLEAN : InsertVm(r, dbok)
    \/ \E dbok \in BOOLEAN : RemoveVm(dbok)
    \/ \E r \in {"Running", "Stopped"}, dbok \in BOOLEAN : UpdateVm(r, dbok)
    \/ CreateCmdRun

SpecStore == Init /\ [][NextStore]_vars

\* Two packed invocations of one checksum and their runtime directories.
NextRuntime ==
    \/ \E i \in Invocations, d \in DirNames : RtCreate(i, d)
    \/ \E i \in Invocations : RtRemoveDir(i)
    \/ \E i \in Invocations : RtTempDirDrop(i)
    \/ \E i \in Invocations : RtExit(i)

SpecRuntime == Init /\ [][NextRuntime]_vars

\* The host waits for the agent and then uses the client it got.
NextConn ==
    \/ \E to \in SockStates : SockAdvance(to)
    \/ WaitForAgentPoll
    \/ \E op \in ClientOps : ClientCall(op)
    \/ \E ok \in BOOLEAN : ClientReturn(ok)

SpecConn == Init /\ [][NextConn]_vars

\* A disk image under the storage calls and damage from outside.
NextDisk ==
    \/ OpenOrCreateAt
    \/ \E probe, rmok \in BOOLEAN : NeedsFormat(probe, rmok)
    \/ \E probe, rmok, template, mkfs \in BOOLEAN :
          EnsureFormatted(probe, rmok, template, mkfs)
    \/ MarkFormatted
    \/ DeleteDisk
    \/ \E to \in DiskStates : DiskDamaged(to)

SpecDisk == Init /\ [][NextDisk]_vars

\* The supervisor's two pure computations on every input of the bounded sets.
NextDecision ==
    \/ \E policy \in Policies, max_retries \in Counts, restart_count \in Counts,
          user_stopped \in BOOLEAN, code \in LastExitCodes :
          ShouldRestartCall(policy, max_retries, restart_count, user_stopped, code)
    \/ \E restart_count \in Counts \cup {BigCount} : CalculateBackoffCall(restart_count)
    \/ CheckDone

SpecDecision == Init /\ [][NextDecision]_vars

\* validate_image_reference on every tried reference.
NextValidate ==
    \/ \E image \in TriedRefs : ValidateCall(image)
    \/ ValidateDone

SpecValidate == Init /\ [][NextValidate]_vars

\* The agent's listener with two client connections.
NextServer ==
    \/ \E j \in Conns : SrvConnect(j)
    \/ \E j \in Conns, kind \in ServerKinds : SrvSend(j, kind)
    \/ \E j \in Conns : SrvClose(j)
    \/ \E j \in Conns : ServerAccept(j)
    \/ \E j \in Conns : ServerBegin(j)
    \/ \E j \in Conns : ServerRespond(j)
    \/ \E j \in Conns : ServerEof(j)

SpecServer == Init /\ [][NextServer]_vars

\* The same, with the agent's thread always taking its next step when it has
\* one; the clients are free to keep a connection open for ever.
SpecServerFair == SpecServer /\ WF_vars(ServerStep)

\* The listener with connections that break, accepts that fail and clients
\* that ask for shutdown.
NextListener ==
    \/ NextServer
    \/ \E j \in Conns : SrvSend(j, "Shutdown")
    \/ \E j \in Conns : SrvBreak(j)
    \/ \E j \in Conns : ServerReadError(j)
    \/ \E j \in Conns : ServerWriteError(j)
    \/ ServerAcceptFail

SpecListener == Init /\ [][NextListener]_vars

\* The same, with the agent's thread always taking its next step when it has
\* one; connections break and accepts fail as they please.
SpecListenerFair == SpecListener /\ WF_vars(ListenerStep)

\* Requests to the layer store, one after the other.
NextLayers ==
    \/ \E image \in Images : LsPull(image)
    \/ \E image \in Images, done \in SUBSET Layers : LsPullFail(image, done)
    \/ \E image \in Images : LsRemoveManifest(image)
    \/ \E image \in Images, w \in Workloads : LsPrepareOverlay(image, w)
    \/ \E w \in Workloads : LsCleanupOverlay(w)
    \/ \E dry_run \in BOOLEAN : LsGarbageCollect(dry_run)

SpecLayers == Init /\ [][NextLayers]_vars

\* The API server's registry used by three request threads.
NextRegistry ==
    \/ \E op \in {"register", "remove"}, n \in Names : AdminCall(op, n)
    \/ AdminAcquire
    \/ AdminFinish
    \/ \E n \in Names : ExecCall(n)
    \/ ExecAcquire
    \/ ExecGot
    \/ ExecLock
    \/ ExecDone
    \/ ListCall
    \/ ListAcquire
    \/ ListNext
    \/ ListLock
    \/ ListEntryDone

SpecRegistry == Init /\ [][NextRegistry]_vars

\* The start of a named VM, ending well or with an error, and its stop.
NextStart ==
    \/ NextStop
    \/ \E stopped \in BOOLEAN : StartCmdFinish(stopped)
    \/ \E torn \in BOOLEAN : StartCmdFail(torn)

SpecStart == Init /\ [][NextStart]_vars

\* The overlay handlers called with every workload id tried.
NextOverlay ==
    \/ \E fn \in {"PrepareOverlay", "CleanupOverlay"}, id \in WorkloadIds,
          out \in {"ok", "err"} : OverlayCall(fn, id, out)
    \/ OverlayDone

SpecOverlay == Init /\ [][NextOverlay]_vars

\* The supervisor's run loop with the shutdown signal of the server.
NextSupervisor ==
    \/ \E pid \in Pids : ProcExit(pid)
    \/ \E pid \in Pids : StartCmdRun(pid)
    \/ \E stopped \in BOOLEAN : StartCmdFinish(stopped)
    \/ \E c \in RestartConfigs : RegisterSandbox(c[1], c[2])
    \/ \E code \in ExitCodes : SupTick(code)
    \/ \E ok \in BOOLEAN, pid \in Pids : SupRestart(ok, pid)
    \/ ShutdownSignal
    \/ SupShutdown

SpecSupervisor == Init /\ [][NextSupervisor]_vars

\* A ChildProcess handle whose child is stopped with or without force.
NextChild ==
    \/ SpCheck("chp")
    \/ SpTerminate("chp")
    \/ SpPoll("chp")
    \/ SpTimeout("chp")
    \/ \E pid \in Pids : ProcExit(pid)
    \/ \E pid \in Pids : OtherSpawn(pid)
    \/ \E pid \in Pids : ChildProcessNew(pid)
    \/ \E force \in BOOLEAN : ChildProcessStop(force)
    \/ ChildProcessStopped
    \/ ChildProcessAgain

SpecChild == Init /\ [][NextChild]_vars

\* The record of a named VM under the start and stop commands and the
\* supervisor of the API server.
NextRecord ==
    \/ SpCheck("stop")
    \/ SpTerminate("stop")
    \/ SpPoll("stop")
    \/ \E pid \in Pids : ProcExit(pid)
    \/ \E pid \in Pids : StartCmdRun(pid)
    \/ StopRun(FALSE)
    \/ StopAliveCheck
    \/ StopReturn
    \/ StopExit
    \/ \E stopped \in BOOLEAN : StartCmdFinish(stopped)
    \/ \E c \in RestartConfigs : RegisterSandbox(c[1], c[2])
    \/ \E code \in ExitCodes : SupCheck(code)
    \/ \E ok \in BOOLEAN, pid \in Pids : SupRestart(ok, pid)

SpecRecord == Init /\ [][NextRecord]_vars

\* One connection to the guest agent, with the host client and a raw peer.
SpecAgent == Init /\ [][NextAgent]_vars

\* ------------------------------------------------------------------ properties

\* C1: no stop path sends SIGTERM or SIGKILL to a recorded pid without having
\* verified the (pid, start-time) identity first, so a process that merely
\* reuses the pid of the exited VM is never signalled.
C1_NoSignalToUnrelated ==
    \A s \in sigLog : s.hit

\* C2: on every exit path of a packed run after the fork, the runtime
\* directory ends up removed, and it is removed only once the forked child is
\* no longer running.
C2_GuardStopsThenRemoves ==
    /\ (pk.dir = "removed" => ~ChildRunning)
    /\ (pk.pc = "done" => pk.dir = "removed")

\* C2 witness: a run whose command completed, and whose guard had to stop a
\* child that was still running, is done with the directory removed.
C2_Witness ==
    /\ pk.pc = "done"
    /\ pk.result = "ok"
    /\ pk.dir = "removed"
    /\ \E s \in sigLog : s.by = "pk" /\ s.sig = "KILL" /\ s.verified

\* C3: the agent handshake (and everything after it) is never reached with a
\* running child whose start time is unknown; a start that fails for lack of
\* the start time leaves the child stopped and the runtime directory removed.
C3_NoHandshakeWithoutIdentity ==
    /\ (pk.pc \in {"wait_agent", "exec", "drop"} /\ ChildRunning => pk.st = pk.cstart)
    /\ (pk.result = "err_identity" => ~ChildRunning /\ pk.dir = "removed")

\* C3 witness: the start failed because the start time could not be captured,
\* after all the retries, and the child had to be killed.
C3_Witness ==
    /\ pk.result = "err_identity"
    /\ pk.tries = CaptureRetries
    /\ \E s \in sigLog : s.by = "pk" /\ s.sig = "KILL"

\* C4: neither the agent's connection handler nor the client's read_response
\* ever sizes its receive buffer for a declared length above 64 MiB.
C4_OversizeNeverAllocated == ag.buf <= MaxFrameSize /\ cl.buf <= MaxFrameSize

Last(q) == q[Len(q)]

IsInvalidReply(e) == e.resp = Resp("Error", "INVALID_REQUEST", FALSE)

\* C5: every payload that is not a known request is answered with Error
\* INVALID_REQUEST, and writing that answer leaves the agent reading the next
\* header of the same connection.
C5_InvalidRequestAnswered ==
    /\ [](\A i \in 1..Len(agOut) :
            agOut[i].req.kind = "Invalid" => IsInvalidReply(agOut[i]))
    /\ [][(Len(agOut') > Len(agOut) /\ Last(agOut').req.kind = "Invalid")
            => ag'.pc = "header"]_vars

C5_Witness ==
    /\ Len(agOut) = 2
    /\ agOut[1].req.kind = "Invalid" /\ IsInvalidReply(agOut[1])
    /\ agOut[2].req.kind = "Ping" /\ agOut[2].resp.type = "Pong"

\* C6: a Pull whose image reference fails validate_image_reference is answered
\* with Error INVALID_REQUEST and is never handed to the storage layer.
C6_InvalidPullRejected ==
    \A i \in 1..Len(agOut) :
        (agOut[i].req.kind = "Pull" /\ ~validate_image_reference(agOut[i].req.image))
            => IsInvalidReply(agOut[i]) /\ ~agOut[i].dispatched

\* C7: a Run with an empty command is answered with Error INVALID_REQUEST and
\* is never handed to the storage layer that starts the container.
C7_EmptyCommandRejected ==
    \A i \in 1..Len(agOut) :
        (agOut[i].req.kind = "Run" /\ agOut[i].req.command = <<>>)
            => IsInvalidReply(agOut[i]) /\ ~agOut[i].dispatched

\* C8: the n-th response written answers the n-th request read; unless the
\* connection broke on a failed read or write, as many responses are written
\* as requests were read; and a header is read only when every earlier
\* request has its response.
C8_OneResponsePerRequest ==
    /\ \A i \in 1..Len(agOut) : agOut[i].id = i
    /\ ag.reason # "io_error" => ag.nread = Len(agOut)
    /\ ag.nread - Len(agOut) \in {0, 1}
    /\ ag.pc = "payload" => ag.nhdr = Len(agOut) + 1 /\ ag.nread = Len(agOut)
    /\ ag.pc = "header" => ag.nhdr = Len(agOut)

C8_Witness ==
    /\ Len(agOut) = 1
    /\ agOut[1].req.kind = "Pull"
    /\ ag.pc = "payload"
    /\ ag.nhdr = 2

\* C9: when the agent leaves the connection loop because of Shutdown, the Ok
\* reply to that Shutdown is the last frame it wrote; and no request after a
\* Shutdown is served.
C9_ShutdownRepliedBeforeStop ==
    /\ ag.reason = "shutdown"
         => /\ Len(agOut) = ag.nread
            /\ Len(agOut) > 0
            /\ Last(agOut).req.kind = "Shutdown"
            /\ Last(agOut).resp = Resp("Ok", "", TRUE)
    /\ \A i \in 1..Len(agOut) :
         agOut[i].req.kind = "Shutdown" => i = Len(agOut) /\ ag.pc = "closed"

C9_Witness ==
    /\ ag.reason = "shutdown"
    /\ Len(agOut) = 1
    /\ inq # <<>>

\* C10: the client's shutdown reports success when the connection is lost
\* after the Shutdown request was written.
C10_ShutdownToleratesLoss ==
    (cl.pc = "done" /\ cl.op = "Shutdown" /\ cl.why = "read_header_failed")
        => cl.result = "ok"

\* C11: when a typed client operation ends on an Error response, the error
\* returned to the caller carries the code of that response.
C11_ErrorCodePreserved ==
    (cl.pc = "done" /\ cl.result = "err_agent") => cl.ecode = cl.rcode

\* C12: a Pull of the client never ends on a Progress frame; the client reads
\* on until the terminal Ok or Error frame.
C12_ProgressSkipped ==
    (cl.pc = "done" /\ cl.op = "Pull") => cl.rtype # "Progress"

\* C13: a CleanupOverlay for a workload that has no overlay is answered with
\* Error NOT_FOUND.
C13_CleanupMissingNotFound ==
    \A i \in 1..Len(agOut) :
        (agOut[i].req.kind = "CleanupOverlay" /\ ~agOut[i].had)
            => agOut[i].resp = Resp("Error", "NOT_FOUND", FALSE)

C15_NotRunningHasNoPid == rec.state # "Running" => rec.pid = 0

C15_Witness ==
    /\ rec.state = "Stopped"
    /\ stopc.pc = "done"
    /\ stopc.result = "ok"
    /\ stopc.pid # 0

\* C16: a supervisor check that finds a Running record's VM dead and does not
\* restart it moves the record to Failed.
C16_DeadWithoutRestartIsFailed ==
    [][(\E code \in ExitCodes : SupCheck(code))
         => ((rec.state = "Running" /\ rec'.state # "Running")
                => rec'.state = "Failed")]_vars

\* C17: a record is reported as running only if its pid is set and the
\* process at that pid is the one started for it, with the start time it had
\* at launch.
C17_RunningOnlyIfOurs ==
    actual_state(rec) = "Running"
        => /\ rec.pid # 0
           /\ procs[rec.pid].kind = "vm"
           /\ procs[rec.pid].start = rec.gstart

Sent(c, sig) == \E s \in sigLog : s.by = c /\ s.sig = sig

C19_PersistedAtCall ==
    (/\ cfg.last \in {"create", "insert", "update", "remove"}
     /\ cfg.result \in {"ok", "some"}
     /\ cfg.dbok)
        => cfg.db = cfg.vms

\* C20: an insert under a name that the database or the cache already holds
\* fails and leaves both the database row and the cached record as they were.
C20_InsertExistingFails ==
    (cfg.last = "insert" /\ (cfg.pdb # "absent" \/ cfg.pvms # "absent"))
        => /\ cfg.result = "err"
           /\ cfg.db = cfg.pdb
           /\ cfg.vms = cfg.pvms

\* C21: two packed invocations that hold runtime directories at the same time
\* hold different ones, with different storage-disk and control-socket paths,
\* and the directory of an invocation that has not started its cleanup exists:
\* no cleanup of the other invocation has removed it.
C21_RuntimeDirsIsolated ==
    /\ \A i, j \in Invocations :
          (i # j /\ Holds(i) /\ Holds(j))
             => /\ rt.inv[i].dir # rt.inv[j].dir
                /\ storage_path(rt.inv[i].dir) # storage_path(rt.inv[j].dir)
                /\ vsock_path(rt.inv[i].dir) # vsock_path(rt.inv[j].dir)
    /\ \A i \in Invocations :
          rt.inv[i].pc = "running" => rt.inv[i].dir \in rt.dirs

C21_Witness ==
    /\ rt.inv[1].pc = "done"
    /\ rt.inv[2].pc = "running"
    /\ rt.inv[2].dir \in rt.dirs
    /\ rt.inv[1].dir \in rt.used \ rt.dirs

\* C22: wait_for_agent has returned a client only if a Ping handshake
\* succeeded on the control socket, which takes an agent that answers.
C22_ReadyOnlyAfterPing ==
    conn.pc \in {"ready", "inflight"} => (conn.pings > 0 /\ conn.sock = "ready")

\* C23: on a client the write timeout is 10 s, and the read timeout is 1 h
\* while a Run is in flight and 30 s at every other time.
C23_Deadlines ==
    conn.pc \in {"ready", "inflight"}
        => /\ conn.wto = WriteTimeoutSecs
           /\ conn.rto = IF conn.pc = "inflight" /\ conn.op = "Run"
                         THEN RunReadTimeoutSecs ELSE ReadTimeoutSecs

C25_Reformatted ==
    (/\ dk.last = "ensure_formatted"
     /\ dk.pmarker /\ dk.pdisk = "corrupt" /\ dk.probe /\ dk.rmok
     /\ dk.with \in {"template", "mkfs"})
        => (dk.ret = "ok" /\ dk.disk = "ext" /\ dk.marker)

C27_Backoff ==
    dec.fn = "calculate_backoff"
        => /\ dec.restart_count <= 8 => dec.backoff = 2 ^ dec.restart_count
           /\ dec.restart_count >= 8 => dec.backoff = 256
           /\ dec.backoff <= MAX_BACKOFF_SECS
           /\ dec.restart_count > 0
                 => calculate_backoff(dec.restart_count - 1) <= dec.backoff

C27_Witness ==
    /\ dec.fn = "calculate_backoff"
    /\ dec.restart_count = BigCount
    /\ dec.backoff = 256

\* C28: a reference is accepted exactly when it has 1 to 512 bytes, every
\* character is an ASCII letter, a digit or one of . _ / : @ -, the first and
\* the last character are ASCII letters or digits, and it does not contain
\* both ".." and "/".
C28_AcceptedExactly ==
    vref.called
        => vref.ok =
              LET image == vref.image
                  n == Len(image)
              IN /\ n \in 1..512
                 /\ \A i \in 1..n :
                       image[i] \in AlnumChars \cup {".", "_", "/", ":", "@", "-"}
                 /\ image[1] \in AlnumChars /\ image[n] \in AlnumChars
                 /\ ~(/\ \E i \in 1..(n - 1) : image[i] = "." /\ image[i + 1] = "."
                      /\ \E i \in 1..n : image[i] = "/")

C28_Witness ==
    /\ vref.called
    /\ vref.image = <<"a", ".", ".", "/", "a">>
    /\ ~vref.ok

\* C29: no two requests that change the store are inside handle_request at
\* the same time, on whatever connections they arrived: not Pull with
\* GarbageCollect, not PrepareOverlay or CleanupOverlay with GarbageCollect,
\* not two Pulls.
C29_MutationsSerialized ==
    \A x, y \in srv.running :
        (x # y) => ~(x.kind \in MutatingKinds /\ y.kind \in MutatingKinds)

C29_Witness ==
    /\ srv.c[1].answered = 1
    /\ srv.c[2].accepted
    /\ [conn |-> 2, kind |-> "GarbageCollect"] \in srv.running

\* C30: a request sent on the second connection is eventually answered,
\* whether or not the first connection is ever closed.
C30_SecondClientServed ==
    (srv.c[2].req # "none") ~> (srv.c[2].req = "none")

\* C31: an error on a connection or a failed accept does not end the agent:
\* the agent stays alive, after the error no handler is left running so that
\* the loop is back at accept, and once the first connection is broken a
\* request waiting on the second connection is answered (unless the second
\* connection goes away itself).
C31_ErrorsKeepListener ==
    /\ [](srv.alive)
    /\ [][(srv'.connErrs > srv.connErrs \/ srv'.acceptErrs > srv.acceptErrs)
            => may_accept(srv')]_vars
    /\ ((srv.c[1].st = "broken" /\ srv.c[2].st = "open" /\ srv.c[2].req # "none")
          ~> (srv.c[2].req = "none" \/ srv.c[2].st # "open"))

C31_Witness ==
    /\ srv.connErrs = 1
    /\ srv.acceptErrs = 1
    /\ srv.c[1].st = "broken"
    /\ srv.c[1].accepted
    /\ srv.c[2].answered = 1

C33_StoppedMeansDead ==
    [][\A c \in Callers :
         (sp[c].pc \notin {"ret", "idle"} /\ sp'[c].pc = "ret" /\ sp'[c].res = "ok")
           => /\ ~(is_alive(sp[c].pid))'
              /\ (sp[c].force /\ Sent(c, "TERM") /\ is_alive(sp[c].pid)
                    /\ ~procs[sp[c].pid].zombie)
                   => (Sent(c, "KILL"))']_vars

\* C34: no thread waits for the lock of a sandbox entry while it holds the
\* registry lock, and while an exec holds the entry lock of one sandbox a
\* register or remove for another sandbox is not kept waiting by a thread that
\* holds the registry lock until the exec is over.
C34_RegistryNeverWaitsForEntry ==
    /\ \A x \in Threads : waits_for_entry(reg, x) => ~holds_registry(reg, x)
    /\ (/\ reg.t["exec"].pc = "running"
        /\ reg.t["admin"].pc = "want_write"
        /\ reg.t["admin"].sb # reg.t["exec"].sb)
         => ~\E x \in Threads : /\ holds_registry(reg, x)
                                /\ waits_for_entry(reg, x)
                                /\ reg.owner[reg.t[x].sb] = "exec"

\* C35: a start that fails after the record was set to Running leaves the
\* record in a state other than Running, with no pid.
C35_FailedStartClearsRecord ==
    startc.pc = "failed" => (startc.state # "Running" /\ startc.pid = 0)

\* C36: an insert_vm, update_vm or remove_vm that starts with the cache and
\* the database equal ends with them equal, also when its database write
\* failed.
C36_CacheEqualsDatabase ==
    (cfg.last \in {"insert", "update", "remove"} /\ cfg.pdb = cfg.pvms)
        => cfg.db = cfg.vms

\* C37: an id whose tree would not be its own directory under
\* /storage/overlays is answered as invalid without being handed on; for an
\* id that is acted on, the root is that directory, upper, work, merged and
\* bundle are directly inside it, and the root of no other such id is inside
\* it or around it.
C37_OverlayTreeConfined ==
    ovl.fn # "none" =>
        /\ ~root_is_own(ovl.id) => (~ovl.dispatched /\ ovl.reply = "INVALID_REQUEST")
        /\ ovl.reply = "Ok" =>
              /\ Resolve(ovl.root) = Append(OVERLAYS_DIR, ovl.id)
              /\ \A d \in ovl.tree :
                    /\ Len(Resolve(d)) = Len(Resolve(ovl.root)) + 1
                    /\ IsPrefix(Resolve(ovl.root), Resolve(d))
              /\ \A other \in WorkloadIds :
                    (other # ovl.id /\ root_is_own(other))
                      => /\ ~IsPrefix(Resolve(overlay_dir(other)), Resolve(ovl.root))
                         /\ ~IsPrefix(Resolve(ovl.root), Resolve(overlay_dir(other)))

\* C38: when the handler closes on a stream that ended inside a frame, in the
\* header or in the payload, it reports an error; it reports a clean end of
\* stream only when nothing of a further frame had arrived.
C38_PartialFrameIsError ==
    [][/\ (ag.pc = "header" /\ ag'.pc = "closed" /\ inq # <<>> /\ ~Head(inq).hdr)
            => ag'.reason = "io_error"
       /\ (ag.pc = "payload" /\ ag'.pc = "closed" /\ ~Head(inq).pay)
            => ag'.reason = "io_error"
       /\ (ag.pc # "closed" /\ ag'.pc = "closed" /\ ag'.reason = "eof")
            => inq = <<>>]_vars

\* C39: once a Shutdown request has been answered the agent accepts no
\* further connection.
C39_NoAcceptAfterShutdown ==
    [][srv.down => \A j \in Conns : srv'.c[j].accepted = srv.c[j].accepted]_vars

\* C40: no step of the supervisor attempts a restart once shutdown has been
\* signalled, whether the signal came before the check or during the backoff.
C40_NoRestartAfterShutdown ==
    [][shut.signalled => ~(\E ok \in BOOLEAN, pid \in Pids : SupRestart(ok, pid))]_vars

====
